---- MODULE Spec2Model ----
(***************************************************************************)
(* Real-time / background bridge of the voice agent workshop repository.   *)
(*                                                                         *)
(*   SpecAudio : AudioProcessor (playback queue, sequence numbers, skip)   *)
(*               voiceAgentAgentic/01_local_tools/main.py                  *)
(*   SpecTM    : PendingTaskManager (mvoicefinal/src/pending_task_manager) *)
(*   SpecTurn  : VoiceService turn tracking and the function-call handler  *)
(*               of VoiceAgentBridge (mvoicefinal/src)                     *)
(*   SpecTMFair: SpecTM under a fair event loop                            *)
(*   SpecSweep : PendingTaskManager with the clock and _cleanup_old_tasks  *)
(*   SpecBridge: VoiceAgentBridge in transcript-interception mode          *)
(*               (mvoicefinal/src/voice_agent_bridge.py)                   *)
(*   SpecHandlerFair: SpecTurn, the event task and the handlers fair       *)
(*   SpecExtract    : extract_order_id (mvoicefinal/src/order_backend.py)  *)
(*   SpecClassify   : KeywordClassifier (voice/src/query_classifier.py)    *)
(*   SpecOrderAgent : OrderAgent.decide (mvoicefinal/src/order_agent.py)   *)
(*   SpecContext    : ConversationContext (voice_agent/session_manager.py) *)
(*   SpecDispatch   : function-call events and handlers of the bridge, and *)
(*                    its stop() (mvoicefinal/src/voice_agent_bridge.py)   *)
(*   SpecWaitFair   : SpecTurn, the sleeps of the turn-clear wait return   *)
(*   SpecSession    : SessionManager (voice_agent/session_manager.py)      *)
(*   SpecPolling    : background queries and result checker of the polling *)
(*                    orchestrators (voiceAgentAgentic/01_, 02_)           *)
(*                                                                         *)
(* Each specification moves only its own group of variables.               *)
(***************************************************************************)
EXTENDS Integers, Sequences, FiniteSets, TLC

(***************************************************************************)
(* Bounds of the model                                                     *)
(***************************************************************************)
\* sequence numbers issued by one AudioProcessor in a run
MaxSeq == 9
\* packets waiting in playback_queue at once
MaxQueue == 3
\* largest payload of one audio packet, in bytes
MaxData == 2
\* frame_count * sample size, the bytes one playback callback has to deliver
FrameBytes == 1
\* spawn calls accepted in one run of the PendingTaskManager
MaxTasks == 2
\* TaskManagerConfig.max_concurrent_tasks of the run (3 by default)
max_concurrent_tasks == 1
\* what happens to the service from outside in one run: request_response
\* calls of callers other than the function-call handler, turns the transport
\* opens by itself, SpeechStarted events and tool calls
MaxStimuli == 3
\* tool calls of a run
MaxCalls == 1
\* sleeps of the turn-clear wait before the flag is forced (range(50) in the source)
TurnClearPolls == 2
\* characters of a transcript
MaxText == 2
\* characters kept for a de-duplication key ([:100] in the source)
KeyLen == 1
\* self._max_processed_cache (100 in the source)
MaxCache == 1
\* transcript events of a run
MaxEvents == 2

\* words put together into one text handed to extract_order_id
MaxWords == 4
\* characters of a text handed to classify
MaxChars == 3
\* keywords in the data keyword list of a classifier that add_keyword extends
MaxKeywords == 3
\* words of an utterance handed to OrderAgent.decide
MaxUtterance == 2
\* add_turn calls of one session
MaxTurns == 4
\* tool calls whose events may interleave
MaxToolCalls == 2
\* transcription events of one session
MaxTranscripts == 3
\* background queries of one session
MaxQueries == 2

VARIABLES
    \* ---- AudioProcessor ----
    playback_queue,   \* queue.Queue of AudioPlaybackPacket: <<[seq_num, data]>>
    playback_base,    \* self.playback_base
    next_seq_num,     \* self.next_seq_num
    remaining,        \* closure variable of _playback_callback: [seq_num, data]
    out,              \* bytes collected by the running callback: [len, stale]
    cb_pc,            \* position of the playback thread
    packet,           \* packet fetched by get_nowait, not yet examined
    lastDrain,        \* history: the packet the last step examined, and its fate
    lastOp,           \* history: whether the last step was skip_pending_audio
    scenD,            \* history: progress of the "5, 6, skip, enqueue" scenario
    \* ---- PendingTaskManager ----
    tm_tasks,         \* self._tasks: the task ids registered
    tm_status,        \* PendingTask.status of every task object created
    tm_result,        \* PendingTask.result: "none", "success", "error_msg", "timed_out"
    task_counter,     \* self._task_counter
    tm_running,       \* self._running (the cleanup loop is alive)
    tpc,              \* position of each asyncio task running _run_with_tracking
    cancel_req,       \* asyncio: Task.cancel() requested and not yet delivered
    caller,           \* coroutines inside cancel_task / cancel_all / shutdown
    cb_count,         \* history: calls of the start / complete / error callbacks
    lastSpawn,        \* history: the spawn call made by the last step
    rejected,         \* history: a spawn was refused since the last one accepted
    \* ---- VoiceService (turn tracking) and the transport ----
    session_ready,            \* self._session_ready
    active_response,          \* self._active_response
    response_api_done,        \* self._response_api_done
    pending_response_request, \* self._pending_response_request
    ev_pc,            \* position of the event task (_process_events)
    s2c,              \* events the transport has sent and the service not yet handled
    srv,              \* the transport: [active, own, session, stimuli, calls]
    rpc,              \* position of each caller of request_response
    \* ---- VoiceAgentBridge._do_function_call ----
    fpc,              \* position of the handler of each tool call
    polls,            \* sleeps done by the turn-clear wait of each handler
    lookup_result,    \* result_text of each handler: "none", "data", "error_payload"
    sent_result,      \* history: the output sent as the real result of each call
    flog,             \* history: outbound operations of each handler, in order
    lastReq,          \* history: what the request_response or the barge-in of the
                      \* last step did
    open_starts,      \* history: starts the transport took and no RESPONSE_DONE handled
    owed,             \* history: a request was deferred and no start issued since
    \* ---- time, as far as the retention sweep sees it ----
    age,              \* time since PendingTask.created_at of each task
    term_age,         \* history: time since each task first had a terminal status
    \* ---- VoiceAgentBridge, transcript interception ----
    processed,        \* self._processed_transcripts
    bpc,              \* position of the event task inside _process_user_transcript
    ev_ops,           \* history: outbound operations of the transcript in hand, in order
    handled,          \* history: TRANSCRIPT events taken by _handle_voice_event
    at_cap_decide,    \* history: the manager was at capacity when decide returned
                      \* for the lookup in hand
    cbpc,             \* position inside _on_task_complete / _on_task_error, per task
    cb_ops,           \* history: outbound operations of the callback of each task
    last_ev,          \* history: what the last step did with a transcript
                      \* ("decided": agent.decide was called), and its key
    \* ---- order_backend.extract_order_id ----
    x_text,           \* the text handed to extract_order_id
    x_pc,             \* "in", "once" (applied), "twice" (applied to its result)
    x_out,            \* what extract_order_id(x_text) returned
    x_again,          \* what extract_order_id(x_out) returned
    \* ---- KeywordClassifier ----
    classifier,       \* the KeywordClassifier object: its config and its lists
    cl_last,          \* the classify call whose result the caller has in hand: text, result
    \* ---- OrderAgent ----
    agent_state,      \* self._state, the OrderConversationState
    last_action,      \* the decide call whose action the bridge has in hand: text, action
    \* ---- ConversationContext ----
    context,          \* the ConversationContext of the session
    add_turn_calls,   \* history: the (role, text) of the add_turn calls made, in call order
    \* ---- VoiceAgentBridge, dispatch of tool calls ----
    pending_function_call, \* self._pending_function_call
    fc_events,         \* the function-call events of each tool call handled so far
    bridge_running,    \* VoiceAgentBridge._running
    fc_handler,        \* the _handle_function_call task created for each tool call: its arguments, what it sent
    \* ---- SessionManager ----
    sm_state,          \* self._state
    sm_pc,             \* position of the receive loop inside _on_transcription_completed
    sm_stop,           \* position of stop()
    sm_handled,        \* transcription events dispatched so far
    sm_last,           \* history: how the last handler ended, what the last handle_audio / send_text did
    \* ---- LocalToolVoiceAssistant / AgentVoiceAssistant, background queries ----
    pending_queries,   \* keys of self.pending_queries
    q_state,           \* PendingQuery.state of each query ('none': not created)
    q_result,          \* PendingQuery.result
    chk_pc,            \* position of _check_for_completed_queries
    chk_todo,          \* what is left of list(self.pending_queries.items()) in the running round
    q_log              \* history: what the checker did on behalf of each query

audio_vars == <<playback_queue, playback_base, next_seq_num, remaining, out,
                cb_pc, packet, lastDrain, lastOp, scenD>>

tm_vars == <<tm_tasks, tm_status, tm_result, task_counter, tm_running, tpc,
             cancel_req, caller, cb_count, lastSpawn, rejected>>

turn_vars == <<session_ready, active_response, response_api_done,
               pending_response_request, ev_pc, s2c, srv, rpc, fpc, polls,
               lookup_result, sent_result, flog, lastReq, open_starts, owed>>

clock_vars == <<age, term_age>>

bridge_vars == <<processed, bpc, ev_ops, handled, at_cap_decide,
                 cbpc, cb_ops, last_ev>>

extract_vars == <<x_text, x_pc, x_out, x_again>>

\* the functions and small objects that are checked by themselves
classify_vars == <<classifier, cl_last>>

agent_vars == <<agent_state, last_action>>

context_vars == <<context, add_turn_calls>>

dispatch_vars == <<pending_function_call, fc_events, bridge_running, fc_handler>>

session_vars == <<sm_state, sm_pc, sm_stop, sm_handled, sm_last>>

polling_vars == <<pending_queries, q_state, q_result, chk_pc, chk_todo, q_log>>

fn_vars == <<extract_vars,
             classify_vars,
             agent_vars,
             context_vars,
             dispatch_vars,
             session_vars,
             polling_vars>>

vars == <<audio_vars, tm_vars, turn_vars, clock_vars, bridge_vars, fn_vars>>

not_audio_vars == <<tm_vars, turn_vars, clock_vars, bridge_vars, fn_vars>>
not_tm_vars == <<audio_vars, turn_vars, clock_vars, bridge_vars, fn_vars>>
not_turn_vars == <<audio_vars, tm_vars, clock_vars, bridge_vars, fn_vars>>
not_tm_bridge_vars == <<audio_vars, turn_vars, clock_vars, fn_vars>>
not_fn_vars == <<audio_vars, tm_vars, turn_vars, clock_vars, bridge_vars>>
not_extract_vars == <<not_fn_vars, classify_vars, agent_vars, context_vars,
    dispatch_vars,
    session_vars,
    polling_vars>>
not_classify_vars == <<not_fn_vars, extract_vars, agent_vars, context_vars,
    dispatch_vars,
    session_vars,
    polling_vars>>
not_agent_vars == <<not_fn_vars, extract_vars, classify_vars, context_vars,
    dispatch_vars,
    session_vars,
    polling_vars>>
not_context_vars == <<not_fn_vars, extract_vars, classify_vars, agent_vars,
    dispatch_vars,
    session_vars,
    polling_vars>>
not_dispatch_vars == <<not_fn_vars, extract_vars, classify_vars, agent_vars, context_vars,
    session_vars,
    polling_vars>>
not_session_vars == <<not_fn_vars, extract_vars, classify_vars, agent_vars, context_vars, dispatch_vars,
    polling_vars>>
not_polling_vars == <<not_fn_vars, extract_vars, classify_vars, agent_vars, context_vars, dispatch_vars, session_vars>>

(***************************************************************************)
(* AudioProcessor                                                          *)
(*                                                                         *)
(* A payload is modelled by its length; length 0 stands for both None (the *)
(* end-of-stream packet queued by shutdown) and b"", which the callback    *)
(* treats alike ("not packet.data").                                       *)
(***************************************************************************)

NoPacket == [seq_num |-> -1, data |-> 0, skipped |-> FALSE]
NoDrain == [seq_num |-> -1, base |-> 0, data |-> 0, played |-> FALSE, skipped |-> FALSE]
NoScenario == [stage |-> "none", seq |-> -1]

AudioInit ==
    /\ playback_queue = <<>>
    /\ playback_base = 0
    /\ next_seq_num = 0
    /\ remaining = NoPacket
    /\ out = [len |-> 0, stale |-> FALSE]
    /\ cb_pc = "idle"
    /\ packet = NoPacket
    /\ lastDrain = NoDrain
    /\ lastOp = "init"
    /\ scenD = NoScenario

Min(a, b) == IF a < b THEN a ELSE b

\* _get_and_increase_seq_num: the value of next_seq_num after the call
\* (the call returns the value before it).
GetAndIncreaseSeqNum(n) == n + 1

\* history only: a skip marks every packet that was enqueued before it
MarkSkipped(p) == [p EXCEPT !.skipped = (p.seq_num >= 0)]

\* history only: the scenario "packets 5 and 6 queued, skip, enqueue, drain"
QueuedFiveSix ==
    /\ Len(playback_queue) = 2
    /\ playback_queue[1].seq_num = 5 /\ playback_queue[1].data > 0
    /\ playback_queue[2].seq_num = 6 /\ playback_queue[2].data > 0
    /\ next_seq_num = 7

ScenAfterSkip ==
    IF QueuedFiveSix THEN [stage |-> "skipped", seq |-> -1]
    ELSE IF scenD.stage = "none" THEN scenD
    ELSE [stage |-> "void", seq |-> -1]

ScenAfterEnqueue(seq, data) ==
    IF scenD.stage = "skipped"
    THEN (IF data > 0 THEN [stage |-> "enq", seq |-> seq] ELSE [stage |-> "void", seq |-> -1])
    ELSE IF scenD.stage = "enq" THEN [stage |-> "void", seq |-> -1]
    ELSE scenD

\* queue_audio(audio_data)
QueueAudio(data) ==
    /\ UNCHANGED not_audio_vars
    /\ next_seq_num < MaxSeq
    /\ Len(playback_queue) < MaxQueue
    /\ playback_queue' = Append(playback_queue,
                                [seq_num |-> next_seq_num, data |-> data, skipped |-> FALSE])
    /\ next_seq_num' = GetAndIncreaseSeqNum(next_seq_num)
    /\ scenD' = ScenAfterEnqueue(next_seq_num, data)
    /\ lastOp' = "other"
    /\ lastDrain' = NoDrain
    /\ UNCHANGED <<playback_base, remaining, out, cb_pc, packet>>

\* the new playback_base of skip_pending_audio
SkipBaseStale(n, base) == base
SkipBase(n, base) == n

\* next_seq_num after skip_pending_audio, which takes its base from
\* _get_and_increase_seq_num
SkipKeepsSeqNum(n) == n
SkipSeqNum(n) == GetAndIncreaseSeqNum(n)

\* skip_pending_audio()
SkipPendingAudio ==
    /\ UNCHANGED not_audio_vars
    /\ next_seq_num < MaxSeq
    /\ playback_base' = SkipBase(next_seq_num, playback_base)
    /\ next_seq_num' = SkipSeqNum(next_seq_num)
    /\ playback_queue' = [i \in 1..Len(playback_queue) |-> MarkSkipped(playback_queue[i])]
    /\ packet' = MarkSkipped(packet)
    /\ remaining' = MarkSkipped(remaining)
    /\ scenD' = ScenAfterSkip
    /\ lastOp' = "skip_pending_audio"
    /\ lastDrain' = NoDrain
    /\ UNCHANGED <<out, cb_pc>>

\* _playback_callback entry: out = remaining[:frame_count]; remaining = remaining[frame_count:]
CallbackBegin ==
    /\ UNCHANGED not_audio_vars
    /\ cb_pc = "idle"
    /\ LET taken == Min(remaining.data, FrameBytes) IN
        /\ out' = [len |-> taken, stale |-> (taken > 0 /\ remaining.skipped)]
        /\ remaining' = IF remaining.data - taken = 0 THEN NoPacket
                        ELSE [remaining EXCEPT !.data = remaining.data - taken]
    /\ cb_pc' = "loop"
    /\ lastOp' = "other"
    /\ lastDrain' = NoDrain
    /\ UNCHANGED <<playback_queue, playback_base, next_seq_num, packet, scenD>>

\* while len(out) < frame_count: packet = playback_queue.get_nowait()
\* (queue.Empty pads out with silence)
CallbackGet ==
    /\ UNCHANGED not_audio_vars
    /\ cb_pc = "loop"
    /\ out.len < FrameBytes
    /\ IF playback_queue = <<>>
       THEN /\ out' = [out EXCEPT !.len = FrameBytes]
            /\ UNCHANGED <<playback_queue, packet, cb_pc>>
       ELSE /\ packet' = Head(playback_queue)
            /\ playback_queue' = Tail(playback_queue)
            /\ cb_pc' = "got"
            /\ UNCHANGED out
    /\ lastOp' = "other"
    /\ lastDrain' = NoDrain
    /\ UNCHANGED <<playback_base, next_seq_num, remaining, scenD>>

\* the test that discards a packet: packet.seq_num < self.playback_base
DiscardsBelowOrAtBase(seq, base) == seq <= base
Discards(seq, base) == seq < base

\* the rest of one loop iteration, for the packet just fetched
CallbackExamine ==
    /\ UNCHANGED not_audio_vars
    /\ cb_pc = "got"
    /\ packet' = NoPacket
    /\ lastOp' = "other"
    /\ IF packet.data = 0
       THEN \* end-of-stream packet: break, and the callback returns paComplete
            /\ cb_pc' = "complete"
            /\ out' = [len |-> 0, stale |-> FALSE]
            /\ lastDrain' = [seq_num |-> packet.seq_num, base |-> playback_base,
                             data |-> 0, played |-> FALSE, skipped |-> packet.skipped]
            /\ UNCHANGED remaining
       ELSE IF Discards(packet.seq_num, playback_base)
       THEN /\ cb_pc' = "loop"
            /\ remaining' = NoPacket
            /\ lastDrain' = [seq_num |-> packet.seq_num, base |-> playback_base,
                             data |-> packet.data, played |-> FALSE,
                             skipped |-> packet.skipped]
            /\ UNCHANGED out
       ELSE LET taken == Min(FrameBytes - out.len, packet.data) IN
            /\ cb_pc' = "loop"
            /\ out' = [out EXCEPT !.len = out.len + taken]
            /\ remaining' = IF packet.data - taken = 0 THEN NoPacket
                            ELSE [packet EXCEPT !.data = packet.data - taken]
            /\ lastDrain' = [seq_num |-> packet.seq_num, base |-> playback_base,
                             data |-> packet.data, played |-> TRUE,
                             skipped |-> packet.skipped]
    /\ UNCHANGED <<playback_queue, playback_base, next_seq_num, scenD>>

\* return (out, paContinue) once len(out) >= frame_count
CallbackReturn ==
    /\ UNCHANGED not_audio_vars
    /\ cb_pc = "loop"
    /\ out.len >= FrameBytes
    /\ cb_pc' = "idle"
    /\ out' = [len |-> 0, stale |-> FALSE]
    /\ lastOp' = "other"
    /\ lastDrain' = NoDrain
    /\ UNCHANGED <<playback_queue, playback_base, next_seq_num, remaining, packet, scenD>>

(***************************************************************************)
(* PendingTaskManager                                                      *)
(*                                                                         *)
(* Task ids are 1..MaxTasks in the order spawn creates them; 0 stands for  *)
(* None.  The start, complete and error callbacks are registered.  The     *)
(* unit of work handed to spawn lets a cancellation through.               *)
(***************************************************************************)
Tasks == 1..MaxTasks
Callers == {"c1"}

\* TaskStatus (PENDING is the dataclass default; spawn always passes RUNNING)
PENDING == "pending"
RUNNING == "running"
COMPLETED == "completed"
FAILED == "failed"
TIMEOUT == "timeout"
CANCELLED == "cancelled"
Terminal == {COMPLETED, FAILED, TIMEOUT, CANCELLED}

NoSpawn == [ret |-> -1, pending_before |-> 0, after_reject |-> FALSE]
IdleCaller == [op |-> "idle", todo |-> {}, cur |-> 0]

TMInit ==
    /\ tm_tasks = {}
    /\ tm_status = [t \in Tasks |-> "none"]
    /\ tm_result = [t \in Tasks |-> "none"]
    /\ task_counter = 0
    /\ tm_running = FALSE
    /\ tpc = [t \in Tasks |-> "none"]
    /\ cancel_req = [t \in Tasks |-> FALSE]
    /\ caller = [c \in Callers |-> IdleCaller]
    /\ cb_count = [start |-> [t \in Tasks |-> 0],
                   complete |-> [t \in Tasks |-> 0],
                   error |-> [t \in Tasks |-> 0]]
    /\ lastSpawn = NoSpawn
    /\ rejected = FALSE

\* pending_count
pending_count ==
    Cardinality({t \in tm_tasks : tm_status[t] \in {PENDING, RUNNING}})

\* can_accept_task
CanAcceptAtCap(n) == n <= max_concurrent_tasks
can_accept_task(n) == n < max_concurrent_tasks

Bump(f, t) == [f EXCEPT ![t] = IF @ < 2 THEN @ + 1 ELSE @]

\* start()
Start ==
    /\ ~tm_running
    /\ tm_running' = TRUE
    /\ lastSpawn' = NoSpawn
    /\ UNCHANGED <<tm_tasks, tm_status, tm_result, task_counter, tpc, cancel_req,
                   caller, cb_count, rejected>>
    /\ UNCHANGED not_tm_vars

\* spawn(query, coroutine, timeout): the admission test, the creation of the asyncio
\* task and the registration happen without an await in between; the start
\* callback is called before spawn returns.
SpawnCall ==
    /\ task_counter < MaxTasks
    /\ LET n == pending_count
           id == task_counter + 1
       IN IF can_accept_task(n)
          THEN /\ task_counter' = id
               /\ tpc' = [tpc EXCEPT ![id] = "new"]
               /\ tm_status' = [tm_status EXCEPT ![id] = RUNNING]
               /\ tm_tasks' = tm_tasks \cup {id}
               /\ cb_count' = [cb_count EXCEPT !.start = Bump(@, id)]
               /\ lastSpawn' = [ret |-> id, pending_before |-> n,
                                after_reject |-> rejected]
               /\ rejected' = FALSE
          ELSE /\ lastSpawn' = [ret |-> 0, pending_before |-> n,
                                after_reject |-> rejected]
               /\ rejected' = TRUE
               /\ UNCHANGED <<task_counter, tpc, tm_status, tm_tasks, cb_count>>
    /\ UNCHANGED <<tm_result, tm_running, cancel_req, caller>>

Spawn == SpawnCall /\ UNCHANGED not_tm_vars

\* first step of the asyncio task: pending = self._tasks.get(task_id).
\* A task cancelled before its first step ends without running any of
\* _run_with_tracking.
TaskStartStep(t) ==
    /\ tpc[t] = "new"
    /\ tpc' = [tpc EXCEPT ![t] =
                 IF cancel_req[t] \/ t \notin tm_tasks THEN "done" ELSE "wait"]
    /\ cancel_req' = [cancel_req EXCEPT ![t] = FALSE]
    /\ lastSpawn' = NoSpawn
    /\ UNCHANGED <<tm_tasks, tm_status, tm_result, task_counter, tm_running, caller,
                   cb_count, rejected>>

TaskStart(t) == TaskStartStep(t) /\ UNCHANGED not_tm_vars

\* asyncio.wait_for(coroutine, timeout): the unit of work returns, raises, or
\* the deadline passes first; the wrapper is woken and resumes in a later step
WorkEndsStep(t, how) ==
    /\ tpc[t] = "wait"
    /\ tpc' = [tpc EXCEPT ![t] = how]
    /\ lastSpawn' = NoSpawn
    /\ UNCHANGED <<tm_tasks, tm_status, tm_result, task_counter, tm_running,
                   cancel_req, caller, cb_count, rejected>>

WorkEnds(t, how) == WorkEndsStep(t, how) /\ UNCHANGED not_tm_vars

\* the status _run_with_tracking records for an outcome of wait_for
StatusOfDeadlineCompletes(how, old) ==
    CASE how \in {"inner_ok", "inner_to"} -> COMPLETED
      [] how = "inner_err" -> FAILED
      [] OTHER -> CANCELLED
StatusOf(how, old) ==
    CASE how = "inner_ok" -> COMPLETED
      [] how = "inner_err" -> FAILED
      [] how = "inner_to" -> TIMEOUT
      [] OTHER -> CANCELLED

\* the TaskResult stored with the status: success with the data, failure
\* with str(e), failure with "Task timed out after ..."; the
\* CancelledError branch stores nothing
ResultOf(how, old) ==
    CASE how = "inner_ok" -> "success"
      [] how = "inner_err" -> "error_msg"
      [] how = "inner_to" -> "timed_out"
      [] OTHER -> old

\* _run_with_tracking resumes after wait_for.  With a cancellation pending,
\* wait_for of Python <= 3.11 still hands out the outcome of a unit of work
\* that has already finished (keeps = TRUE), later versions raise
\* CancelledError (keeps = FALSE).
TaskResumeStep(t, keeps) ==
    /\ tpc[t] \in {"wait", "inner_ok", "inner_err", "inner_to"}
    /\ tpc[t] = "wait" => cancel_req[t]
    /\ LET cancelled == cancel_req[t] /\ ~(keeps /\ tpc[t] \in {"inner_ok", "inner_err"})
           how == IF cancelled THEN "cancelled" ELSE tpc[t]
       IN /\ tm_status' = [tm_status EXCEPT ![t] = StatusOf(how, @)]
          /\ tm_result' = [tm_result EXCEPT ![t] = ResultOf(how, @)]
          /\ tpc' = [tpc EXCEPT ![t] =
                       CASE how = "inner_ok" -> "cb_complete"
                         [] how \in {"inner_err", "inner_to"} -> "cb_error"
                         [] OTHER -> "done"]
          /\ cb_count' =
               CASE how = "inner_ok" -> [cb_count EXCEPT !.complete = Bump(@, t)]
                 [] how \in {"inner_err", "inner_to"} -> [cb_count EXCEPT !.error = Bump(@, t)]
                 [] OTHER -> cb_count
    /\ cancel_req' = [cancel_req EXCEPT ![t] = FALSE]
    /\ lastSpawn' = NoSpawn
    /\ UNCHANGED <<tm_tasks, task_counter, tm_running, caller, rejected>>

TaskResume(t, keeps) == TaskResumeStep(t, keeps) /\ UNCHANGED not_tm_vars

\* the awaited complete / error callback returns or raises an Exception
\* (logged), and _run_with_tracking ends
CallbackDoneStep(t) ==
    /\ tpc[t] \in {"cb_complete", "cb_error"}
    /\ ~cancel_req[t]
    /\ tpc' = [tpc EXCEPT ![t] = "done"]
    /\ lastSpawn' = NoSpawn
    /\ UNCHANGED <<tm_tasks, tm_status, tm_result, task_counter, tm_running,
                   cancel_req, caller, cb_count, rejected>>

CallbackDone(t) == CallbackDoneStep(t) /\ UNCHANGED not_tm_vars

\* the status after a CancelledError raised inside an awaited callback: the
\* complete callback is awaited inside the try block, whose
\* "except asyncio.CancelledError" then runs; the error callbacks are awaited
\* inside except blocks, which no sibling clause covers
StatusCallbackCancelled(where, old) ==
    IF where = "cb_complete" THEN CANCELLED ELSE old

\* a cancellation is delivered while the task awaits a callback
CallbackCancelled(t) ==
    /\ tpc[t] \in {"cb_complete", "cb_error"}
    /\ cancel_req[t]
    /\ tm_status' = [tm_status EXCEPT ![t] = StatusCallbackCancelled(tpc[t], @)]
    /\ tpc' = [tpc EXCEPT ![t] = "done"]
    /\ cancel_req' = [cancel_req EXCEPT ![t] = FALSE]
    /\ lastSpawn' = NoSpawn
    /\ UNCHANGED <<tm_tasks, tm_result, task_counter, tm_running, caller, cb_count,
                   rejected>>
    /\ UNCHANGED not_tm_vars

\* the asyncio task is cancelled from outside the manager: asyncio.run cancels
\* every task still alive when the program's main coroutine ends
LoopCancel(t) ==
    /\ tpc[t] \notin {"none", "done"}
    /\ ~cancel_req[t]
    /\ cancel_req' = [cancel_req EXCEPT ![t] = TRUE]
    /\ lastSpawn' = NoSpawn
    /\ UNCHANGED <<tm_tasks, tm_status, tm_result, task_counter, tm_running, tpc,
                   caller, cb_count, rejected>>
    /\ UNCHANGED not_tm_vars

MinOf(S) == CHOOSE x \in S : \A y \in S : x <= y

\* the status cancel_task leaves behind once the cancelled task has ended
StatusAfterCancel(old) == CANCELLED

\* cancel_task for the ids of todo in turn (cancel_all, shutdown; a single id
\* for a direct call), up to the first call that has to await its task: a call
\* that returns without awaiting does not yield to the event loop.  Yields the
\* ids left, the task awaited (0: none, the loop is finished) and the statuses.
RECURSIVE CancelLoop(_, _)
CancelLoop(todo, st) ==
    IF todo = {} THEN [todo |-> {}, cur |-> 0, status |-> st]
    ELSE LET t == MinOf(todo) IN
         IF t \notin tm_tasks \/ st[t] \notin {PENDING, RUNNING}
         THEN CancelLoop(todo \ {t}, st)
         ELSE IF tpc[t] # "done"
         THEN [todo |-> todo \ {t}, cur |-> t, status |-> st]
         ELSE CancelLoop(todo \ {t}, [st EXCEPT ![t] = StatusAfterCancel(@)])

\* the caller c goes on with the outcome r of CancelLoop; shutdown ends
\* with self._tasks.clear()
Proceed(c, op, r) ==
    /\ tm_status' = r.status
    /\ IF r.cur # 0
       THEN /\ cancel_req' = [cancel_req EXCEPT ![r.cur] = TRUE]
            /\ caller' = [caller EXCEPT ![c] = [op |-> op, todo |-> r.todo, cur |-> r.cur]]
            /\ UNCHANGED tm_tasks
       ELSE /\ caller' = [caller EXCEPT ![c] = IdleCaller]
            /\ tm_tasks' = IF op = "shutdown" THEN {} ELSE tm_tasks
            /\ UNCHANGED cancel_req

\* cancel_task(task_id) called from outside
CancelTask(c, t) ==
    /\ caller[c].op = "idle"
    /\ t <= task_counter
    /\ Proceed(c, "cancel_task", CancelLoop({t}, tm_status))
    /\ lastSpawn' = NoSpawn
    /\ UNCHANGED <<tm_result, task_counter, tm_running, tpc, cb_count, rejected>>
    /\ UNCHANGED not_tm_vars

\* cancel_all()
CancelAll(c) ==
    /\ caller[c].op = "idle"
    /\ tm_tasks # {}
    /\ Proceed(c, "cancel_all", CancelLoop(tm_tasks, tm_status))
    /\ lastSpawn' = NoSpawn
    /\ UNCHANGED <<tm_result, task_counter, tm_running, tpc, cb_count, rejected>>
    /\ UNCHANGED not_tm_vars

\* shutdown(): with a cleanup task alive it is cancelled and awaited first
Shutdown(c) ==
    /\ caller[c].op = "idle"
    /\ tm_running' = FALSE
    /\ IF tm_running
       THEN /\ caller' = [caller EXCEPT ![c] = [op |-> "shutdown_wait", todo |-> {}, cur |-> 0]]
            /\ UNCHANGED <<tm_status, cancel_req, tm_tasks>>
       ELSE Proceed(c, "shutdown", CancelLoop(tm_tasks, tm_status))
    /\ lastSpawn' = NoSpawn
    /\ UNCHANGED <<tm_result, task_counter, tpc, cb_count, rejected>>
    /\ UNCHANGED not_tm_vars

\* shutdown() after the cleanup task has ended: for ... in list(self._tasks.items())
ShutdownCancels(c) ==
    /\ caller[c].op = "shutdown_wait"
    /\ Proceed(c, "shutdown", CancelLoop(tm_tasks, tm_status))
    /\ lastSpawn' = NoSpawn
    /\ UNCHANGED <<tm_result, task_counter, tm_running, tpc, cb_count, rejected>>
    /\ UNCHANGED not_tm_vars

\* cancel_task resumes after "await pending.task": pending.status = CANCELLED
CancelTaskResumes(c) ==
    /\ caller[c].cur # 0
    /\ tpc[caller[c].cur] = "done"
    /\ Proceed(c, caller[c].op,
               CancelLoop(caller[c].todo,
                          [tm_status EXCEPT ![caller[c].cur] = StatusAfterCancel(@)]))
    /\ lastSpawn' = NoSpawn
    /\ UNCHANGED <<tm_result, task_counter, tm_running, tpc, cb_count, rejected>>
    /\ UNCHANGED not_tm_vars

\* _cleanup_old_tasks: removes every registered task in a terminal state whose
\* created_at lies further back than cleanup_completed_after; tasks are
\* created in the order of their ids, so those old enough are the ids up to k
CleanupOldTasks(k) ==
    /\ tm_running
    /\ LET old == {t \in tm_tasks : t <= k /\ tm_status[t] \in Terminal} IN
        /\ old # {}
        /\ tm_tasks' = tm_tasks \ old
    /\ lastSpawn' = NoSpawn
    /\ UNCHANGED <<tm_status, tm_result, task_counter, tm_running, tpc, cancel_req,
                   caller, cb_count, rejected>>
    /\ UNCHANGED not_tm_vars

\* TaskManagerConfig.cleanup_completed_after, in units of the sweep interval
cleanup_completed_after == 1

ClockInit ==
    /\ age = [t \in Tasks |-> 0]
    /\ term_age = [t \in Tasks |-> 0]

\* ages are followed up to the first value beyond the retention window
Older(a) == IF a <= cleanup_completed_after THEN a + 1 ELSE a

\* asyncio.sleep(30) of _cleanup_loop: one sweep interval passes
Tick ==
    /\ tm_running
    /\ \E t \in Tasks : t <= task_counter /\ age[t] <= cleanup_completed_after
    /\ age' = [t \in Tasks |-> IF t <= task_counter THEN Older(age[t]) ELSE age[t]]
    /\ term_age' = [t \in Tasks |->
                      IF tm_status[t] \in Terminal THEN Older(term_age[t])
                      ELSE term_age[t]]
    /\ UNCHANGED <<audio_vars, tm_vars, turn_vars, bridge_vars, fn_vars>>

\* age > self.config.cleanup_completed_after holds for the task ids up to
\* OldUpto: created_at grows with the id
OldByTermination(t) == term_age[t] > cleanup_completed_after
OldByCreation(t) == age[t] > cleanup_completed_after
OldUpto ==
    LET old == {t \in Tasks : t <= task_counter /\ OldByCreation(t)}
    IN IF old = {} THEN 0 ELSE CHOOSE t \in old : \A u \in old : u <= t

\* _cleanup_loop after its sleep: await self._cleanup_old_tasks()
Sweep == CleanupOldTasks(OldUpto)

SweepNext ==
    \/ Start
    \/ Spawn
    \/ \E t \in Tasks : TaskStart(t)
    \/ \E t \in Tasks, how \in {"inner_ok", "inner_err", "inner_to"} : WorkEnds(t, how)
    \/ \E t \in Tasks, keeps \in BOOLEAN : TaskResume(t, keeps)
    \/ \E t \in Tasks : CallbackDone(t)
    \/ \E c \in Callers, t \in Tasks : CancelTask(c, t)
    \/ \E c \in Callers : CancelTaskResumes(c)
    \/ Tick
    \/ Sweep

(***************************************************************************)
(* VoiceAgentBridge in transcript-interception mode (agent set, no         *)
(* order_backend)                                                          *)
(*                                                                         *)
(* _emit_event awaits _handle_voice_event, which awaits                    *)
(* _process_user_transcript: transcripts are handled one after the other   *)
(* by the event task, and the lookup tasks of the manager run in between   *)
(* at every await.  A step of the event task runs up to its next outbound  *)
(* operation.  Messages and requests go out through                        *)
(* VoiceService.add_system_message and request_response.                   *)
(***************************************************************************)
Chars == {"a", "A", " "}
Texts == UNION {[1..n -> Chars] : n \in 0..MaxText}
ActionTypes == {"pass_through", "ask_identifier", "lookup"}
DataShapes == {"order", "not_found", "orders", "no_orders", "other"}

NoEvent == [kind |-> "none", key |-> <<>>]

BridgeInit ==
    /\ processed = {}
    /\ bpc = "idle"
    /\ ev_ops = <<>>
    /\ handled = 0
    /\ at_cap_decide = FALSE
    /\ cbpc = [t \in Tasks |-> "start"]
    /\ cb_ops = [t \in Tasks |-> <<>>]
    /\ last_ev = NoEvent

\* str.lower, str.strip and [:100]
Lower(c) == IF c = "A" THEN "a" ELSE c
LowerAll(s) == [i \in 1..Len(s) |-> Lower(s[i])]
RECURSIVE LStrip(_)
LStrip(s) == IF s # <<>> /\ Head(s) = " " THEN LStrip(Tail(s)) ELSE s
RECURSIVE RStrip(_)
RStrip(s) == IF s # <<>> /\ s[Len(s)] = " " THEN RStrip(SubSeq(s, 1, Len(s) - 1)) ELSE s
Strip(s) == RStrip(LStrip(s))
Truncate(s) == SubSeq(s, 1, Min(Len(s), KeyLen))

\* transcript_key = transcript.strip().lower()[:100]
TranscriptKey(text) == Truncate(LowerAll(Strip(text)))

\* the cache after the trimming of lines 358-361: with more than
\* _max_processed_cache keys, items[excess:] keeps
\* len - (len - _max_processed_cache // 2) of them, in the iteration order of
\* a set, which is any order
TrimChoicesKeepAll(S) == {S}
TrimChoices(S) ==
    IF Cardinality(S) > MaxCache
    THEN LET excess == Cardinality(S) - (MaxCache \div 2)
         IN {K \in SUBSET S : Cardinality(K) = Cardinality(S) - excess}
    ELSE {S}

\* the capacity check of line 420
AtCapacity == ~can_accept_task(pending_count)

\* _handle_voice_event for a TRANSCRIPT event of role "user", up to the first
\* outbound operation of _process_user_transcript; act is what
\* agent.decide(text) returns, and plays no part when decide is not called
HandleTranscript(text, act) ==
    /\ tm_running
    /\ bpc = "idle"
    /\ handled < MaxEvents
    /\ (text = <<>> \/ TranscriptKey(text) \in processed) => act = "pass_through"
    /\ handled' = handled + 1
    /\ IF text = <<>>
       THEN /\ last_ev' = [kind |-> "empty", key |-> <<>>]
            /\ UNCHANGED <<processed, bpc, ev_ops, at_cap_decide>>
       ELSE IF TranscriptKey(text) \in processed
       THEN /\ last_ev' = [kind |-> "duplicate", key |-> TranscriptKey(text)]
            /\ UNCHANGED <<processed, bpc, ev_ops, at_cap_decide>>
       ELSE /\ last_ev' = [kind |-> "decided", key |-> TranscriptKey(text)]
            /\ processed' \in TrimChoices(processed \cup {TranscriptKey(text)})
            /\ CASE act = "pass_through" ->
                       /\ ev_ops' = <<>>
                       /\ UNCHANGED <<bpc, at_cap_decide>>
                 [] act = "ask_identifier" ->
                       /\ ev_ops' = <<"msg_ask">>
                       /\ bpc' = "ask_request"
                       /\ UNCHANGED at_cap_decide
                 [] act = "lookup" ->
                       /\ task_counter < MaxTasks
                       /\ ev_ops' = <<"msg_ack">>
                       /\ bpc' = "ack_request"
                       /\ at_cap_decide' = AtCapacity
    /\ UNCHANGED <<cbpc, cb_ops>>
    /\ UNCHANGED <<audio_vars, tm_vars, turn_vars, clock_vars, fn_vars>>

\* what the event task leaves alone
EventTaskKeeps ==
    /\ UNCHANGED <<processed, handled, at_cap_decide, cbpc, cb_ops>>
    /\ UNCHANGED not_tm_bridge_vars

\* ASK_IDENTIFIER: request_response(interrupt=True), return
AskIdentifierRequest ==
    /\ bpc = "ask_request"
    /\ ev_ops' = Append(ev_ops, "request_interrupt")
    /\ bpc' = "idle"
    /\ last_ev' = NoEvent
    /\ UNCHANGED tm_vars
    /\ EventTaskKeeps

\* LOOKUP: request_response(interrupt=True) after the acknowledgement
AcknowledgeRequest ==
    /\ bpc = "ack_request"
    /\ ev_ops' = Append(ev_ops, "request_interrupt")
    /\ bpc' = "check"
    /\ last_ev' = NoEvent
    /\ UNCHANGED tm_vars
    /\ EventTaskKeeps

\* "if not self.task_manager.can_accept_task": the busy message, or on to
\* _spawn_order_lookup_task and its start callback
CapacityCheck ==
    /\ bpc = "check"
    /\ IF AtCapacity
       THEN /\ ev_ops' = Append(ev_ops, "msg_busy")
            /\ bpc' = "busy_request"
       ELSE /\ bpc' = "spawn"
            /\ UNCHANGED ev_ops
    /\ last_ev' = NoEvent
    /\ UNCHANGED tm_vars
    /\ EventTaskKeeps

\* request_response() after the busy message, return
BusyRequest ==
    /\ bpc = "busy_request"
    /\ ev_ops' = Append(ev_ops, "request")
    /\ bpc' = "idle"
    /\ last_ev' = NoEvent
    /\ at_cap_decide' = FALSE
    /\ UNCHANGED <<processed, handled, cbpc, cb_ops>>
    /\ UNCHANGED tm_vars
    /\ UNCHANGED not_tm_bridge_vars

\* _spawn_order_lookup_task: task_manager.spawn(query, agent.lookup(request),
\* timeout); a refusal is logged and nothing else
SpawnLookup ==
    /\ bpc = "spawn"
    /\ SpawnCall
    /\ ev_ops' = Append(ev_ops, IF can_accept_task(pending_count) THEN "spawn" ELSE "refused")
    /\ bpc' = "idle"
    /\ cbpc' = [cbpc EXCEPT ![task_counter + 1] = "start"]
    /\ last_ev' = NoEvent
    /\ at_cap_decide' = FALSE
    /\ UNCHANGED <<processed, handled, cb_ops>>
    /\ UNCHANGED not_tm_bridge_vars

\* _format_order_result: the summary for the data a lookup returned, "none"
\* for a dict with found not False, without "id" and "status" and without
\* an "orders" list
FormatOrderResult(data) ==
    CASE data = "not_found" -> "msg_result"
      [] data = "order" -> "msg_result"
      [] data \in {"orders", "no_orders"} -> "msg_result"
      [] OTHER -> "none"

\* the template _on_task_error picks: "timeout" in error.lower()
ErrorTemplate(result, mentions_timeout) ==
    IF result = "timed_out" \/ mentions_timeout THEN "msg_timeout" ELSE "msg_error"

\* what a callback of the bridge leaves alone
CallbackKeeps ==
    /\ UNCHANGED <<processed, bpc, ev_ops, handled, at_cap_decide>>
    /\ UNCHANGED tm_vars
    /\ UNCHANGED not_tm_bridge_vars

\* _on_task_complete up to add_system_message; data is result.data
OnTaskCompleteMessage(t, data) ==
    /\ tpc[t] = "cb_complete"
    /\ cbpc[t] = "start"
    /\ IF FormatOrderResult(data) = "none"
       THEN /\ cbpc' = [cbpc EXCEPT ![t] = "end"]
            /\ UNCHANGED cb_ops
       ELSE /\ cbpc' = [cbpc EXCEPT ![t] = "request"]
            /\ cb_ops' = [cb_ops EXCEPT ![t] = Append(@, FormatOrderResult(data))]
    /\ last_ev' = NoEvent
    /\ CallbackKeeps

\* _on_task_error up to add_system_message
OnTaskErrorMessage(t, mentions_timeout) ==
    /\ tpc[t] = "cb_error"
    /\ cbpc[t] = "start"
    /\ cbpc' = [cbpc EXCEPT ![t] = "request"]
    /\ cb_ops' = [cb_ops EXCEPT ![t] = Append(@, ErrorTemplate(tm_result[t], mentions_timeout))]
    /\ last_ev' = NoEvent
    /\ CallbackKeeps

\* request_response(interrupt=True) of either callback, then on_agent_complete /
\* on_agent_error
OnTaskRequest(t) ==
    /\ tpc[t] \in {"cb_complete", "cb_error"}
    /\ cbpc[t] = "request"
    /\ cbpc' = [cbpc EXCEPT ![t] = "end"]
    /\ cb_ops' = [cb_ops EXCEPT ![t] = Append(@, "request_interrupt")]
    /\ last_ev' = NoEvent
    /\ CallbackKeeps

\* a step of a lookup task inside the manager
LookupTaskStep(A) ==
    /\ A
    /\ last_ev' = NoEvent
    /\ UNCHANGED <<processed, bpc, ev_ops, handled, at_cap_decide,
                   cbpc, cb_ops>>
    /\ UNCHANGED not_tm_bridge_vars

LookupTaskStart(t) == LookupTaskStep(TaskStartStep(t))
LookupEnds(t, how) == LookupTaskStep(WorkEndsStep(t, how))
LookupTaskResume(t, keeps) == LookupTaskStep(TaskResumeStep(t, keeps))

\* the callback of the bridge returns to _run_with_tracking
CallbackReturns(t) ==
    /\ cbpc[t] = "end"
    /\ LookupTaskStep(CallbackDoneStep(t))

BridgeNext ==
    \/ Start
    \/ \E text \in Texts, act \in ActionTypes : HandleTranscript(text, act)
    \/ AskIdentifierRequest
    \/ AcknowledgeRequest
    \/ CapacityCheck
    \/ BusyRequest
    \/ SpawnLookup
    \/ \E t \in Tasks : LookupTaskStart(t)
    \/ \E t \in Tasks, how \in {"inner_ok", "inner_err", "inner_to"} : LookupEnds(t, how)
    \/ \E t \in Tasks, keeps \in BOOLEAN : LookupTaskResume(t, keeps)
    \/ \E t \in Tasks, data \in DataShapes : OnTaskCompleteMessage(t, data)
    \/ \E t \in Tasks, m \in BOOLEAN : OnTaskErrorMessage(t, m)
    \/ \E t \in Tasks : OnTaskRequest(t)
    \/ \E t \in Tasks : CallbackReturns(t)

TMNext ==
    \/ Start
    \/ Spawn
    \/ \E t \in Tasks : TaskStart(t)
    \/ \E t \in Tasks, how \in {"inner_ok", "inner_err", "inner_to"} : WorkEnds(t, how)
    \/ \E t \in Tasks, keeps \in BOOLEAN : TaskResume(t, keeps)
    \/ \E t \in Tasks : CallbackDone(t)
    \/ \E t \in Tasks : CallbackCancelled(t)
    \/ \E t \in Tasks : LoopCancel(t)
    \/ \E c \in Callers, t \in Tasks : CancelTask(c, t)
    \/ \E c \in Callers : CancelAll(c)
    \/ \E c \in Callers : Shutdown(c)
    \/ \E c \in Callers : ShutdownCancels(c)
    \/ \E c \in Callers : CancelTaskResumes(c)
    \/ \E k \in Tasks : CleanupOldTasks(k)

(***************************************************************************)
(* VoiceService turn tracking, the transport, and the function-call        *)
(* handler of VoiceAgentBridge                                             *)
(*                                                                         *)
(* The transport is the remote end of self._connection.  A request sent    *)
(* to it takes effect at once; what it answers waits in s2c until the      *)
(* event task handles it, in order.  A start requested while a turn is     *)
(* open at the transport is refused.  An event of a turn carries "own"     *)
(* when the turn was opened by a start of the service.                     *)
(***************************************************************************)
Requesters == {"r1"}
Calls == 1..MaxCalls

Event(t, k, o) == [type |-> t, k |-> k, own |-> o]
IdleTransport == [active |-> FALSE, own |-> FALSE, session |-> FALSE,
                  stimuli |-> 0, calls |-> 0]

\* the outbound operations of one tool call, in the order of _do_function_call
HandlerOps == <<"placeholder", "request", "skip", "cancel", "real", "request">>

TurnInit ==
    /\ session_ready = FALSE
    /\ active_response = FALSE
    /\ response_api_done = FALSE
    /\ pending_response_request = FALSE
    /\ ev_pc = "idle"
    /\ s2c = <<>>
    /\ srv = IdleTransport
    /\ rpc = [r \in Requesters |-> "idle"]
    /\ fpc = [k \in Calls |-> "none"]
    /\ polls = [k \in Calls |-> 0]
    /\ lookup_result = [k \in Calls |-> "none"]
    /\ sent_result = [k \in Calls |-> "none"]
    /\ flog = [k \in Calls |-> <<>>]
    /\ lastReq = "none"
    /\ open_starts = 0
    /\ owed = FALSE

\* ---- the transport ----
\* response.create arriving at the transport
TransportCreate(sv) ==
    IF sv.active THEN sv ELSE [sv EXCEPT !.active = TRUE, !.own = TRUE]
TransportCreateEvents(sv, q) ==
    IF sv.active THEN q ELSE Append(q, Event("created", 0, TRUE))
\* response.cancel arriving at the transport
TransportCancel(sv) == [sv EXCEPT !.active = FALSE]
TransportCancelEvents(sv, q) ==
    IF sv.active THEN Append(q, Event("done", 0, sv.own)) ELSE q

TransportSessionUpdated ==
    /\ ~srv.session
    /\ srv' = [srv EXCEPT !.session = TRUE]
    /\ s2c' = Append(s2c, Event("session_updated", 0, FALSE))
    /\ lastReq' = "none"
    /\ UNCHANGED <<session_ready, active_response, response_api_done,
                   pending_response_request, ev_pc, rpc, fpc, polls,
                   lookup_result, sent_result, flog, open_starts, owed>>
    /\ UNCHANGED not_turn_vars

TransportSpeechStarted ==
    /\ srv.session
    /\ srv.stimuli < MaxStimuli
    /\ srv' = [srv EXCEPT !.stimuli = @ + 1]
    /\ s2c' = Append(s2c, Event("speech_started", 0, FALSE))
    /\ lastReq' = "none"
    /\ UNCHANGED <<session_ready, active_response, response_api_done,
                   pending_response_request, ev_pc, rpc, fpc, polls,
                   lookup_result, sent_result, flog, open_starts, owed>>
    /\ UNCHANGED not_turn_vars

\* a turn the transport opens by itself after the user has spoken
TransportAutoTurn ==
    /\ srv.session
    /\ ~srv.active
    /\ srv.stimuli < MaxStimuli
    /\ srv' = [srv EXCEPT !.active = TRUE, !.own = FALSE, !.stimuli = @ + 1]
    /\ s2c' = Append(s2c, Event("created", 0, FALSE))
    /\ lastReq' = "none"
    /\ UNCHANGED <<session_ready, active_response, response_api_done,
                   pending_response_request, ev_pc, rpc, fpc, polls,
                   lookup_result, sent_result, flog, open_starts, owed>>
    /\ UNCHANGED not_turn_vars

\* the model asks for a tool inside the open turn
TransportToolCall(k) ==
    /\ srv.active
    /\ srv.stimuli < MaxStimuli
    /\ k = srv.calls + 1
    /\ srv' = [srv EXCEPT !.calls = k, !.stimuli = @ + 1]
    /\ s2c' = Append(s2c, Event("function_call_arguments_done", k, FALSE))
    /\ lastReq' = "none"
    /\ UNCHANGED <<session_ready, active_response, response_api_done,
                   pending_response_request, ev_pc, rpc, fpc, polls,
                   lookup_result, sent_result, flog, open_starts, owed>>
    /\ UNCHANGED not_turn_vars

\* the open turn ends at the transport
TransportFinish ==
    /\ srv.active
    /\ srv' = [srv EXCEPT !.active = FALSE]
    /\ s2c' = Append(s2c, Event("done", 0, srv.own))
    /\ lastReq' = "none"
    /\ UNCHANGED <<session_ready, active_response, response_api_done,
                   pending_response_request, ev_pc, rpc, fpc, polls,
                   lookup_result, sent_result, flog, open_starts, owed>>
    /\ UNCHANGED not_turn_vars

\* ---- VoiceService.request_response ----
\* the guard of the deferral
Defers(active, done) == active /\ ~done

RequestOutcome(ready, active, done) ==
    IF ~ready THEN "dropped"
    ELSE IF Defers(active, done) THEN "deferred"
    ELSE "started"

\* what request_response does once the optional cancel is behind it; sv and q
\* are the transport and its answers as that cancel left them
RequestNow(o, sv, q) ==
    /\ lastReq' = o
    /\ pending_response_request' = (pending_response_request \/ o = "deferred")
    /\ owed' = IF o = "started" THEN FALSE ELSE (owed \/ o = "deferred")
    /\ open_starts' = IF o = "started" /\ ~sv.active
                      THEN open_starts + 1 ELSE open_starts
    /\ srv' = IF o = "started" THEN TransportCreate(sv) ELSE sv
    /\ s2c' = IF o = "started" THEN TransportCreateEvents(sv, q) ELSE q

\* whether request_response sends response.cancel before anything else:
\* cancel_response is called with interrupt and returns at once when
\* _active_response is false
CancelsFirstAlways(interrupt, active) == interrupt
CancelsFirst(interrupt, active) == interrupt /\ active

\* a caller other than the function-call handler enters request_response
RequestResponse(r, interrupt) ==
    /\ rpc[r] = "idle"
    /\ srv.stimuli < MaxStimuli
    /\ IF session_ready /\ CancelsFirst(interrupt, active_response)
       THEN /\ rpc' = [rpc EXCEPT ![r] = "after_cancel"]
            /\ srv' = TransportCancel([srv EXCEPT !.stimuli = @ + 1])
            /\ s2c' = TransportCancelEvents(srv, s2c)
            /\ lastReq' = "none"
            /\ UNCHANGED <<pending_response_request, open_starts, owed>>
       ELSE /\ rpc' = rpc
            /\ RequestNow(RequestOutcome(session_ready, active_response,
                                         response_api_done),
                          [srv EXCEPT !.stimuli = @ + 1], s2c)
    /\ UNCHANGED <<session_ready, active_response, response_api_done, ev_pc,
                   fpc, polls, lookup_result, sent_result, flog>>
    /\ UNCHANGED not_turn_vars

\* ... and resumes after the cancel was sent
RequestResponseResumes(r) ==
    /\ rpc[r] = "after_cancel"
    /\ rpc' = [rpc EXCEPT ![r] = "idle"]
    /\ RequestNow(RequestOutcome(TRUE, active_response, response_api_done),
                  srv, s2c)
    /\ UNCHANGED <<session_ready, active_response, response_api_done, ev_pc,
                   fpc, polls, lookup_result, sent_result, flog>>
    /\ UNCHANGED not_turn_vars

\* ---- VoiceService._handle_event ----
NextEvent(type) ==
    /\ ev_pc = "idle"
    /\ s2c # <<>>
    /\ Head(s2c).type = type

HandleSessionUpdated ==
    /\ NextEvent("session_updated")
    /\ session_ready' = TRUE
    /\ s2c' = Tail(s2c)
    /\ lastReq' = "none"
    /\ UNCHANGED <<active_response, response_api_done, pending_response_request,
                   ev_pc, srv, rpc, fpc, polls, lookup_result, sent_result, flog,
                   open_starts, owed>>
    /\ UNCHANGED not_turn_vars

\* what the SPEECH_STARTED branch does: the handlers of the SPEECH_STARTED
\* voice event run first (main_agent skips the pending audio), then
\* cancel_response; a cancel the transport has no turn for is answered with
\* "no active response", which cancel_response and the ERROR branch drop
BargeInSkipOnly(active, done, sv) == "skip"
BargeIn(active, done, sv) ==
    IF ~(active /\ ~done) THEN "skip"
    ELSE IF sv.active THEN "skip_cancel"
    ELSE "skip_cancel_nothing"

HandleSpeechStarted ==
    /\ NextEvent("speech_started")
    /\ lastReq' = BargeIn(active_response, response_api_done, srv)
    /\ IF lastReq' # "skip"
       THEN /\ srv' = TransportCancel(srv)
            /\ s2c' = TransportCancelEvents(srv, Tail(s2c))
       ELSE /\ srv' = srv
            /\ s2c' = Tail(s2c)
    /\ UNCHANGED <<session_ready, active_response, response_api_done,
                   pending_response_request, ev_pc, rpc, fpc, polls,
                   lookup_result, sent_result, flog, open_starts, owed>>
    /\ UNCHANGED not_turn_vars

HandleResponseCreated ==
    /\ NextEvent("created")
    /\ active_response' = TRUE
    /\ response_api_done' = FALSE
    /\ s2c' = Tail(s2c)
    /\ lastReq' = "none"
    /\ UNCHANGED <<session_ready, pending_response_request, ev_pc, srv, rpc,
                   fpc, polls, lookup_result, sent_result, flog, open_starts, owed>>
    /\ UNCHANGED not_turn_vars

\* RESPONSE_DONE up to the emission of RESPONSE_ENDED to the handlers
HandleResponseDone ==
    /\ NextEvent("done")
    /\ active_response' = FALSE
    /\ response_api_done' = TRUE
    /\ open_starts' = IF Head(s2c).own THEN open_starts - 1 ELSE open_starts
    /\ ev_pc' = "response_ended"
    /\ s2c' = Tail(s2c)
    /\ lastReq' = "none"
    /\ UNCHANGED <<session_ready, pending_response_request, srv, rpc, fpc,
                   polls, lookup_result, sent_result, flog, owed>>
    /\ UNCHANGED not_turn_vars

\* the guard of the deferred start
DeferredCreateNever(pending) == FALSE
DeferredCreate(pending) == pending

\* RESPONSE_DONE after the handlers have returned
ResponseDoneDeferred ==
    /\ ev_pc = "response_ended"
    /\ ev_pc' = "idle"
    /\ IF DeferredCreate(pending_response_request)
       THEN /\ pending_response_request' = FALSE
            /\ lastReq' = "deferred_start"
            /\ owed' = FALSE
            /\ open_starts' = IF srv.active THEN open_starts ELSE open_starts + 1
            /\ srv' = TransportCreate(srv)
            /\ s2c' = TransportCreateEvents(srv, s2c)
       ELSE /\ lastReq' = "none"
            /\ UNCHANGED <<pending_response_request, owed, open_starts, srv, s2c>>
    /\ UNCHANGED <<session_ready, active_response, response_api_done, rpc, fpc,
                   polls, lookup_result, sent_result, flog>>
    /\ UNCHANGED not_turn_vars

\* ---- VoiceAgentBridge: the function-call handler ----
\* FUNCTION_CALL_ARGUMENTS_DONE reaches _handle_voice_event, which creates
\* the handler task and returns
\* where the event task stands once the handler task is created:
\* asyncio.create_task(...) followed by return, not "await"
AwaitsHandlerInline(k) == "awaits_handler"
AfterCreateTask(k) == "idle"

HandleFunctionCallArgumentsDone ==
    /\ NextEvent("function_call_arguments_done")
    /\ fpc' = [fpc EXCEPT ![Head(s2c).k] = "start"]
    /\ ev_pc' = AfterCreateTask(Head(s2c).k)
    /\ s2c' = Tail(s2c)
    /\ lastReq' = "none"
    /\ UNCHANGED <<session_ready, active_response, response_api_done,
                   pending_response_request, srv, rpc, polls,
                   lookup_result, sent_result, flog, open_starts, owed>>
    /\ UNCHANGED not_turn_vars

HandlerKeeps ==
    /\ UNCHANGED <<session_ready, response_api_done, ev_pc, rpc>>
    /\ UNCHANGED not_turn_vars

\* the operation a step of the handler sends out
StepOpSwapped(step) ==
    CASE step = "ack" -> "real"
      [] step = "ack_request" -> "request"
      [] step = "skip" -> "skip"
      [] step = "cancel" -> "cancel"
      [] step = "real" -> "placeholder"
      [] step = "real_request" -> "request"
StepOp(step) ==
    CASE step = "ack" -> "placeholder"
      [] step = "ack_request" -> "request"
      [] step = "skip" -> "skip"
      [] step = "cancel" -> "cancel"
      [] step = "real" -> "real"
      [] step = "real_request" -> "request"

\* VoiceService.send_function_call_output: one tool result goes out
SendFunctionCallOutput(log, payload) == Append(log, payload)

Logged(k, step) == [flog EXCEPT ![k] = Append(@, StepOp(step))]

\* step 1: the placeholder result goes out, in the step that left step 0
SendAck(k) ==
    /\ fpc' = [fpc EXCEPT ![k] = "ack_request"]
    /\ flog' = [flog EXCEPT ![k] = SendFunctionCallOutput(@, StepOp("ack"))]

\* start callback, then step 0 up to its first sleep; with no turn active
\* the handler goes straight on to step 1
WaitForTurnClear(k) ==
    /\ fpc[k] = "start"
    /\ IF active_response
       THEN /\ fpc' = [fpc EXCEPT ![k] = "sleep"]
            /\ UNCHANGED flog
       ELSE SendAck(k)
    /\ lastReq' = "none"
    /\ UNCHANGED <<active_response, pending_response_request, s2c, srv, polls,
                   lookup_result, sent_result, open_starts, owed>>
    /\ HandlerKeeps

\* the else branch of the for loop: range(50) is used up
LoopNeverExhausted(polled) == FALSE
LoopExhausted(polled) == polled = TurnClearPolls

\* step 0: a sleep is over; the loop ends into its else branch, breaks, or
\* sleeps again; out of the loop the handler goes on to step 1 without
\* giving way to another task
TurnClearPoll(k) ==
    /\ fpc[k] = "sleep"
    /\ polls' = [polls EXCEPT ![k] = @ + 1]
    /\ IF LoopExhausted(polls[k] + 1)
       THEN /\ active_response' = FALSE
            /\ SendAck(k)
       ELSE /\ active_response' = active_response
            /\ IF active_response
               THEN /\ fpc' = [fpc EXCEPT ![k] = "sleep"]
                    /\ UNCHANGED flog
               ELSE SendAck(k)
    /\ lastReq' = "none"
    /\ UNCHANGED <<pending_response_request, s2c, srv, lookup_result, sent_result,
                   open_starts, owed>>
    /\ HandlerKeeps

\* step 1: request_response()
AckRequest(k) ==
    /\ fpc[k] = "ack_request"
    /\ fpc' = [fpc EXCEPT ![k] = "lookup"]
    /\ flog' = Logged(k, "ack_request")
    /\ RequestNow(RequestOutcome(session_ready, active_response,
                                 response_api_done), srv, s2c)
    /\ UNCHANGED <<active_response, polls, lookup_result, sent_result>>
    /\ HandlerKeeps

\* result_text and the next position of the handler after step 2: the try
\* block yields json.dumps(result), its "except Exception" a fixed payload
LookupOutcomeUncaught(outcome) ==
    IF outcome = "returns" THEN [text |-> "data", pc |-> "skip"]
    ELSE [text |-> "exception_text", pc |-> "crashed"]
LookupOutcome(outcome) ==
    IF outcome = "returns" THEN [text |-> "data", pc |-> "skip"]
    ELSE [text |-> "error_payload", pc |-> "skip"]

\* step 2: json.loads(arguments) and the backend call return or raise
BackendLookup(k, outcome) ==
    /\ fpc[k] = "lookup"
    /\ fpc' = [fpc EXCEPT ![k] = LookupOutcome(outcome).pc]
    /\ lookup_result' = [lookup_result EXCEPT ![k] = LookupOutcome(outcome).text]
    /\ lastReq' = "none"
    /\ UNCHANGED <<active_response, pending_response_request, s2c, srv, polls,
                   sent_result, flog, open_starts, owed>>
    /\ HandlerKeeps

\* step 3: config.interrupt_playback()
InterruptPlayback(k) ==
    /\ fpc[k] = "skip"
    /\ fpc' = [fpc EXCEPT ![k] = "cancel"]
    /\ flog' = Logged(k, "skip")
    /\ lastReq' = "none"
    /\ UNCHANGED <<active_response, pending_response_request, s2c, srv, polls,
                   lookup_result, sent_result, open_starts, owed>>
    /\ HandlerKeeps

\* step 3: cancel_response(wait=True)
CancelResponseWait(k) ==
    /\ fpc[k] = "cancel"
    /\ fpc' = [fpc EXCEPT ![k] = "real"]
    /\ flog' = Logged(k, "cancel")
    /\ IF active_response
       THEN /\ srv' = TransportCancel(srv)
            /\ s2c' = TransportCancelEvents(srv, s2c)
       ELSE UNCHANGED <<srv, s2c>>
    /\ lastReq' = "none"
    /\ UNCHANGED <<active_response, pending_response_request, polls,
                   lookup_result, sent_result, open_starts, owed>>
    /\ HandlerKeeps

\* step 4: the real result
SendResult(k) ==
    /\ fpc[k] = "real"
    /\ fpc' = [fpc EXCEPT ![k] = "real_request"]
    /\ flog' = [flog EXCEPT ![k] = SendFunctionCallOutput(@, StepOp("real"))]
    /\ sent_result' = [sent_result EXCEPT ![k] = lookup_result[k]]
    /\ lastReq' = "none"
    /\ UNCHANGED <<active_response, pending_response_request, s2c, srv, polls,
                   lookup_result, open_starts, owed>>
    /\ HandlerKeeps

\* step 5: request_response(), then the complete callback
ResultRequest(k) ==
    /\ fpc[k] = "real_request"
    /\ fpc' = [fpc EXCEPT ![k] = "done"]
    /\ flog' = Logged(k, "real_request")
    /\ RequestNow(RequestOutcome(session_ready, active_response,
                                 response_api_done), srv, s2c)
    /\ UNCHANGED <<active_response, polls, lookup_result, sent_result>>
    /\ HandlerKeeps

TurnNext ==
    \/ TransportSessionUpdated
    \/ TransportSpeechStarted
    \/ TransportAutoTurn
    \/ \E k \in Calls : TransportToolCall(k)
    \/ TransportFinish
    \/ \E r \in Requesters, interrupt \in BOOLEAN : RequestResponse(r, interrupt)
    \/ \E r \in Requesters : RequestResponseResumes(r)
    \/ HandleSessionUpdated
    \/ HandleSpeechStarted
    \/ HandleResponseCreated
    \/ HandleResponseDone
    \/ ResponseDoneDeferred
    \/ HandleFunctionCallArgumentsDone
    \/ \E k \in Calls : WaitForTurnClear(k)
    \/ \E k \in Calls : TurnClearPoll(k)
    \/ \E k \in Calls : AckRequest(k)
    \/ \E k \in Calls, outcome \in {"returns", "raises"} : BackendLookup(k, outcome)
    \/ \E k \in Calls : InterruptPlayback(k)
    \/ \E k \in Calls : CancelResponseWait(k)
    \/ \E k \in Calls : SendResult(k)
    \/ \E k \in Calls : ResultRequest(k)

\* what the service and the handlers do by themselves, as opposed to what the
\* user, the model and other callers start
TurnProgress ==
    \/ TransportFinish
    \/ \E r \in Requesters : RequestResponseResumes(r)
    \/ HandleSessionUpdated
    \/ HandleSpeechStarted
    \/ HandleResponseCreated
    \/ HandleResponseDone
    \/ ResponseDoneDeferred
    \/ HandleFunctionCallArgumentsDone

\* the steps of _do_function_call that wait for nothing but the service
HandlerProgress ==
    \E k \in Calls :
        \/ WaitForTurnClear(k)
        \/ TurnClearPoll(k)
        \/ AckRequest(k)
        \/ InterruptPlayback(k)
        \/ CancelResponseWait(k)
        \/ SendResult(k)
        \/ ResultRequest(k)

(***************************************************************************)
(* Text: str and re as the classifier, the order backend and the order     *)
(* agent use them.  A text is the sequence of its characters.  Every       *)
(* pattern of these modules is compiled or searched with re.IGNORECASE, so *)
(* literals are compared after lower-casing; a pattern is the sequence of  *)
(* its parts, and matching yields the positions at which a match may end.  *)
(***************************************************************************)
LowerLetters == <<"a", "b", "c", "d", "e", "f", "g", "h", "i", "j", "k", "l", "m",
                  "n", "o", "p", "q", "r", "s", "t", "u", "v", "w", "x", "y", "z">>
UpperLetters == <<"A", "B", "C", "D", "E", "F", "G", "H", "I", "J", "K", "L", "M",
                  "N", "O", "P", "Q", "R", "S", "T", "U", "V", "W", "X", "Y", "Z">>
Digits == {"0", "1", "2", "3", "4", "5", "6", "7", "8", "9"}
Whitespace == {" ", "\t", "\n"}
Range(f) == {f[i] : i \in DOMAIN f}
LowerSet == Range(LowerLetters)
UpperSet == Range(UpperLetters)
Letters == LowerSet \cup UpperSet
\* \w
WordChars == Letters \cup Digits \cup {"_"}

IndexIn(c, s) == CHOOSE i \in DOMAIN s : s[i] = c
MaxOf(S) == CHOOSE x \in S : \A y \in S : y <= x

\* str.lower, str.upper
str_lower(s) ==
    [i \in DOMAIN s |-> IF s[i] \in UpperSet
                        THEN LowerLetters[IndexIn(s[i], UpperLetters)] ELSE s[i]]
str_upper(s) ==
    [i \in DOMAIN s |-> IF s[i] \in LowerSet
                        THEN UpperLetters[IndexIn(s[i], LowerLetters)] ELSE s[i]]

\* str.strip
RECURSIVE str_lstrip(_)
str_lstrip(s) ==
    IF s # <<>> /\ Head(s) \in Whitespace THEN str_lstrip(Tail(s)) ELSE s
RECURSIVE str_rstrip(_)
str_rstrip(s) ==
    IF s # <<>> /\ s[Len(s)] \in Whitespace
    THEN str_rstrip(SubSeq(s, 1, Len(s) - 1)) ELSE s
str_strip(s) == str_rstrip(str_lstrip(s))

\* s[i:j] with 0-based positions
Slice(s, i, j) == SubSeq(s, i + 1, j)
\* s.startswith(sub, i)
StartsAt(s, sub, i) ==
    i + Len(sub) <= Len(s) /\ Slice(s, i, i + Len(sub)) = sub
\* sub in s
str_in(sub, s) == \E i \in 0..Len(s) : StartsAt(s, sub, i)

\* str.replace(old, new), old not empty: left to right, not overlapping
RECURSIVE str_replace(_, _, _)
str_replace(s, old, new) ==
    IF s = <<>> THEN <<>>
    ELSE IF StartsAt(s, old, 0)
    THEN new \o str_replace(SubSeq(s, Len(old) + 1, Len(s)), old, new)
    ELSE <<Head(s)>> \o str_replace(Tail(s), old, new)

\* str.split(): the maximal runs of characters that are not whitespace
RECURSIVE str_split(_)
str_split(s) ==
    LET t == str_lstrip(s)
        ends == {j \in 1..Len(t) : j = Len(t) \/ t[j + 1] \in Whitespace}
        e == CHOOSE j \in ends : \A k \in ends : j <= k
    IN IF t = <<>> THEN <<>>
       ELSE <<SubSeq(t, 1, e)>> \o str_split(SubSeq(t, e + 1, Len(t)))

\* the parts of a pattern
Bol == [t |-> "bol"]                                  \* ^
Wb == [t |-> "wb"]                                    \* \b
Alt(S) == [t |-> "alt", s |-> S]                      \* (a|b|c), a literal
Rep(C, lo, hi) == [t |-> "rep", c |-> C, lo |-> lo, hi |-> hi]  \* [C]{lo,hi}; hi = -1: no limit
Opt(parts) == [t |-> "opt", parts |-> parts]          \* (...)?
AnyChars == [t |-> "any"]                             \* .*

\* \b at position i of s
AtWordBoundary(s, i) ==
    LET before == i >= 1 /\ s[i] \in WordChars
        after == i < Len(s) /\ s[i + 1] \in WordChars
    IN before # after

\* the positions at which the parts, matched one after the other from a
\* position of S, may end
RECURSIVE MatchSeq(_, _, _)
MatchPart(p, s, i) ==
    CASE p.t = "bol" -> IF i = 0 THEN {i} ELSE {}
      [] p.t = "wb" -> IF AtWordBoundary(s, i) THEN {i} ELSE {}
      [] p.t = "alt" -> LET rest == str_lower(Slice(s, i, Len(s)))
                        IN {i + Len(l) : l \in {m \in p.s : StartsAt(rest, str_lower(m), 0)}}
      [] p.t = "rep" -> {j \in i..Len(s) : /\ j - i >= p.lo
                                             /\ (p.hi = -1 \/ j - i <= p.hi)
                                             /\ \A k \in (i + 1)..j : s[k] \in p.c}
      [] p.t = "any" -> {j \in i..Len(s) : \A k \in (i + 1)..j : s[k] # "\n"}
      [] p.t = "opt" -> {i} \cup MatchSeq(p.parts, s, {i})
MatchSeq(parts, s, S) ==
    IF parts = <<>> \/ S = {} THEN S
    ELSE MatchSeq(Tail(parts), s, UNION {MatchPart(Head(parts), s, i) : i \in S})

\* pattern.search(s): the leftmost position a match starts at, -1 for None
Starts(parts, s) == {i \in 0..Len(s) : MatchSeq(parts, s, {i}) # {}}
re_search(parts, s) ==
    LET starts == Starts(parts, s)
    IN IF starts = {} THEN -1 ELSE CHOOSE i \in starts : \A j \in starts : i <= j

\* the words of a vocabulary put one after the other
RECURSIVE Flatten(_)
Flatten(ws) == IF ws = <<>> THEN <<>> ELSE Head(ws) \o Flatten(Tail(ws))
WordSeqs(V, n) == UNION {[1..m -> V] : m \in 0..n}

(***************************************************************************)
(* order_backend.extract_order_id                                          *)
(***************************************************************************)
\* None, which is not a text
None == <<"None">>
ORD == <<"O", "R", "D">>

\* _ORDER_ID_RE = re.compile(r"\bORD[-\s]?\d{3,}\b", re.IGNORECASE)
ORDER_ID_RE == <<Wb, Alt({ORD}), Rep({"-"} \cup Whitespace, 0, 1),
                 Rep(Digits, 3, -1), Wb>>

\* match.group(0) of pattern.search(s): the match is greedy
Group0(parts, s) ==
    Slice(s, re_search(parts, s), MaxOf(MatchSeq(parts, s, {re_search(parts, s)})))

\* upper(), replace(" ", ""), replace("ORD", "ORD-"), replace("ORD--", "ORD-")
Normalize(m) ==
    str_replace(str_replace(str_replace(str_upper(m), <<" ">>, <<>>),
                            ORD, ORD \o <<"-">>),
                ORD \o <<"-", "-">>, ORD \o <<"-">>)

extract_order_id(text) ==
    LET s == IF text = None THEN <<>> ELSE text
    IN IF re_search(ORDER_ID_RE, s) = -1 THEN None
       ELSE Normalize(Group0(ORDER_ID_RE, s))

\* the texts extract_order_id is applied to: up to MaxWords of these words
ExtractWords == {ORD, <<"o", "r", "d">>, <<"-">>, <<" ">>, <<"\t">>,
                 <<"5">>, <<"5", "5", "5">>, <<"x">>}
ExtractTexts == {Flatten(ws) : ws \in WordSeqs(ExtractWords, MaxWords)}

ExtractInit ==
    /\ x_text = <<>>
    /\ x_pc = "in"
    /\ x_out = None
    /\ x_again = None

\* order_id = extract_order_id(text)
ExtractOrderId ==
    /\ x_pc = "in"
    /\ x_pc' = "once"
    /\ x_out' = extract_order_id(x_text)
    /\ UNCHANGED <<x_text, x_again>>
    /\ UNCHANGED not_extract_vars

\* extract_order_id applied to what it returned
ExtractAgain ==
    /\ x_pc = "once"
    /\ x_pc' = "twice"
    /\ x_again' = extract_order_id(x_out)
    /\ UNCHANGED <<x_text, x_out>>
    /\ UNCHANGED not_extract_vars

ExtractNext == ExtractOrderId \/ ExtractAgain

(***************************************************************************)
(* KeywordClassifier (mvoicefinal/voice/voice/src/query_classifier.py)     *)
(*                                                                         *)
(* Confidences, scores and the threshold are in tenths; the number of      *)
(* matches is in halves, a keyword with a blank in it counting three.      *)
(***************************************************************************)
SIMPLE == "simple"
DATA_LOOKUP == "data_lookup"
CONVERSATIONAL == "conversational"
\* ClassifierConfig.data_keywords, its default
DefaultDataKeywords ==
    <<
      <<"c", "u", "s", "t", "o", "m", "e", "r">>,
      <<"m", "a", "c", "h", "i", "n", "e">>,
      <<"m", "a", "c", "h", "i", "n", "e", "s">>,
      <<"a", "d", "d", "r", "e", "s", "s">>,
      <<"a", "d", "d", "r", "e", "s", "s", "e", "s">>,
      <<"s", "e", "r", "i", "a", "l">>,
      <<"s", "e", "r", "i", "a", "l", " ", "n", "u", "m", "b", "e", "r">>,
      <<"m", "o", "d", "e", "l">>,
      <<"e", "q", "u", "i", "p", "m", "e", "n", "t">>,
      <<"l", "o", "c", "a", "t", "i", "o", "n">>, <<"s", "i", "t", "e">>,
      <<"i", "n", "s", "t", "a", "l", "l", "a", "t", "i", "o", "n">>,
      <<"l", "o", "o", "k", "u", "p">>, <<"l", "o", "o", "k", " ", "u", "p">>,
      <<"f", "i", "n", "d">>, <<"s", "e", "a", "r", "c", "h">>,
      <<"g", "e", "t">>, <<"f", "e", "t", "c", "h">>, <<"s", "h", "o", "w">>,
      <<"d", "i", "s", "p", "l", "a", "y">>, <<"l", "i", "s", "t">>,
      <<"r", "e", "t", "r", "i", "e", "v", "e">>,
      <<"h", "o", "w", " ", "m", "a", "n", "y">>,
      <<"w", "h", "a", "t", " ", "i", "s">>,
      <<"w", "h", "a", "t", " ", "a", "r", "e">>,
      <<"t", "e", "l", "l", " ", "m", "e", " ", "a", "b", "o", "u", "t">>,
      <<"i", "n", "f", "o", "r", "m", "a", "t", "i", "o", "n", " ", "a", "b", "o", "u", "t">>,
      <<"d", "e", "t", "a", "i", "l", "s", " ", "a", "b", "o", "u", "t">>,
      <<"d", "a", "t", "a", " ", "f", "o", "r">>,
      <<"s", "t", "a", "t", "u", "s", " ", "o", "f">>,
      <<"h", "i", "s", "t", "o", "r", "y", " ", "o", "f">>,
      <<"r", "e", "c", "o", "r", "d">>, <<"r", "e", "c", "o", "r", "d", "s">>,
      <<"d", "a", "t", "a">>, <<"d", "a", "t", "a", "b", "a", "s", "e">>,
      <<"o", "r", "d", "e", "r">>, <<"o", "r", "d", "e", "r", "s">>,
      <<"p", "r", "o", "d", "u", "c", "t">>,
      <<"p", "r", "o", "d", "u", "c", "t", "s">>,
      <<"i", "n", "v", "e", "n", "t", "o", "r", "y">>,
      <<"s", "t", "o", "c", "k">>>>
\* ClassifierConfig.conversational_keywords, its default
DefaultConversationalKeywords ==
    <<
      <<"h", "e", "l", "l", "o">>, <<"h", "i">>, <<"h", "e", "y">>,
      <<"g", "o", "o", "d", " ", "m", "o", "r", "n", "i", "n", "g">>,
      <<"g", "o", "o", "d", " ", "a", "f", "t", "e", "r", "n", "o", "o", "n">>,
      <<"g", "o", "o", "d", " ", "e", "v", "e", "n", "i", "n", "g">>,
      <<"h", "o", "w", " ", "a", "r", "e", " ", "y", "o", "u">>,
      <<"w", "h", "a", "t", "'", "s", " ", "u", "p">>,
      <<"t", "h", "a", "n", "k", "s">>,
      <<"t", "h", "a", "n", "k", " ", "y", "o", "u">>, <<"b", "y", "e">>,
      <<"g", "o", "o", "d", "b", "y", "e">>,
      <<"s", "e", "e", " ", "y", "o", "u">>, <<"o", "k">>,
      <<"o", "k", "a", "y">>, <<"y", "e", "s">>, <<"n", "o">>,
      <<"s", "u", "r", "e">>, <<"a", "l", "r", "i", "g", "h", "t">>,
      <<"g", "o", "t", " ", "i", "t">>,
      <<"u", "n", "d", "e", "r", "s", "t", "a", "n", "d">>,
      <<"h", "e", "l", "p">>,
      <<"w", "h", "a", "t", " ", "c", "a", "n", " ", "y", "o", "u", " ", "d", "o">>,
      <<"w", "h", "o", " ", "a", "r", "e", " ", "y", "o", "u">>>>
\* ClassifierConfig.data_question_patterns, its default
DefaultDataQuestionPatterns ==
    <<
      \* ^(what|which|where|when|how many|how much)\s+.*(customer|machine|address|order|product)
      <<Bol, Alt({
            <<"w", "h", "a", "t">>, <<"w", "h", "i", "c", "h">>,
            <<"w", "h", "e", "r", "e">>, <<"w", "h", "e", "n">>,
            <<"h", "o", "w", " ", "m", "a", "n", "y">>,
            <<"h", "o", "w", " ", "m", "u", "c", "h">>}),
        Rep(Whitespace, 1, -1), AnyChars,
        Alt({
            <<"c", "u", "s", "t", "o", "m", "e", "r">>,
            <<"m", "a", "c", "h", "i", "n", "e">>,
            <<"a", "d", "d", "r", "e", "s", "s">>,
            <<"o", "r", "d", "e", "r">>, <<"p", "r", "o", "d", "u", "c", "t">>})>>,
      \* (customer|machine|address|order)\s*(id|number|#)?\s*\d+
      <<Alt({
            <<"c", "u", "s", "t", "o", "m", "e", "r">>,
            <<"m", "a", "c", "h", "i", "n", "e">>,
            <<"a", "d", "d", "r", "e", "s", "s">>, <<"o", "r", "d", "e", "r">>}),
        Rep(Whitespace, 0, -1),
        Opt(<<Alt({
            <<"i", "d">>, <<"n", "u", "m", "b", "e", "r">>, <<"#">>})>>),
        Rep(Whitespace, 0, -1), Rep(Digits, 1, -1)>>,
      \* (find|search|lookup|get|show)\s+(me\s+)?(the\s+)?(customer|machine|address|data)
      <<Alt({
            <<"f", "i", "n", "d">>, <<"s", "e", "a", "r", "c", "h">>,
            <<"l", "o", "o", "k", "u", "p">>, <<"g", "e", "t">>,
            <<"s", "h", "o", "w">>}),
        Rep(Whitespace, 1, -1),
        Opt(<<Alt({<<"m", "e">>}), Rep(Whitespace, 1, -1)>>),
        Opt(<<Alt({<<"t", "h", "e">>}), Rep(Whitespace, 1, -1)>>),
        Alt({
            <<"c", "u", "s", "t", "o", "m", "e", "r">>,
            <<"m", "a", "c", "h", "i", "n", "e">>,
            <<"a", "d", "d", "r", "e", "s", "s">>, <<"d", "a", "t", "a">>})>>,
      \* (information|details|data|status)\s+(about|for|on)\s+
      <<Alt({
            <<"i", "n", "f", "o", "r", "m", "a", "t", "i", "o", "n">>,
            <<"d", "e", "t", "a", "i", "l", "s">>, <<"d", "a", "t", "a">>,
            <<"s", "t", "a", "t", "u", "s">>}),
        Rep(Whitespace, 1, -1),
        Alt({
            <<"a", "b", "o", "u", "t">>, <<"f", "o", "r">>, <<"o", "n">>}),
        Rep(Whitespace, 1, -1)>>
    >>

\* ClassifierConfig()
DefaultConfig ==
    [data_keywords |-> DefaultDataKeywords,
     conversational_keywords |-> DefaultConversationalKeywords,
     data_question_patterns |-> DefaultDataQuestionPatterns,
     confidence_threshold |-> 3]

\* Scenario A: "Hallo, wie geht es dir?" and "Wo ist meine Bestellung ORD-5001?"
HalloText ==
    <<"H", "a", "l", "l", "o", ",", " ", "w", "i", "e", " ", "g", "e", "h", "t", " ", "e", "s", " ", "d", "i", "r", "?">>
WoIstText ==
    <<"W", "o", " ", "i", "s", "t", " ", "m", "e", "i", "n", "e", " ", "B", "e", "s", "t", "e", "l", "l", "u", "n", "g", " ", "O", "R", "D", "-", "5", "0", "0", "1", "?">>
ScenarioATexts == {HalloText, WoIstText}

\* KeywordClassifier.__init__
KeywordClassifier(config) ==
    [config_data_keywords |-> config.data_keywords,
     confidence_threshold |-> config.confidence_threshold,
     data_patterns |-> config.data_question_patterns,
     data_keywords_lower |-> [i \in DOMAIN config.data_keywords |->
                                  str_lower(config.data_keywords[i])],
     conv_keywords_lower |-> [i \in DOMAIN config.conversational_keywords |->
                                  str_lower(config.conversational_keywords[i])]]

\* the indices of the keywords of a list that occur in text_lower
Occurring(keywords, text_lower) ==
    {i \in DOMAIN keywords : str_in(keywords[i], text_lower)}

\* _score_data_keywords: matches, in halves
RECURSIVE Matches2(_, _)
Matches2(keywords, text_lower) ==
    IF keywords = <<>> THEN 0
    ELSE (IF str_in(Head(keywords), text_lower)
          THEN 2 + (IF str_in(<<" ">>, Head(keywords)) THEN 1 ELSE 0)
          ELSE 0) + Matches2(Tail(keywords), text_lower)

\* _score_data_keywords: the score for a number of matches
ScoreOfTiered(m2) ==
    CASE m2 = 0 -> 0
      [] m2 \in {2, 3} -> 4
      [] m2 \in {4, 5} -> 6
      [] OTHER -> Min(4 + m2, 10)
ScoreOf(m2) ==
    CASE m2 = 0 -> 0
      [] m2 = 2 -> 4
      [] m2 = 4 -> 6
      [] OTHER -> Min(4 + m2, 10)

score_data_keywords(c, text_lower) == ScoreOf(Matches2(c.data_keywords_lower, text_lower))

\* _get_matched_keywords
RECURSIVE get_matched_keywords(_, _)
get_matched_keywords(keywords, text_lower) ==
    IF keywords = <<>> THEN <<>>
    ELSE (IF str_in(Head(keywords), text_lower) THEN <<Head(keywords)>> ELSE <<>>)
         \o get_matched_keywords(Tail(keywords), text_lower)

ClassificationResult(type, confidence, matched) ==
    [query_type |-> type, confidence |-> confidence, matched_keywords |-> matched]

\* KeywordClassifier.classify
classify(c, text) ==
    IF text = <<>> \/ str_strip(text) = <<>>
    THEN ClassificationResult(SIMPLE, 10, <<>>)
    ELSE LET text_lower == str_strip(str_lower(text))
             conv == Occurring(c.conv_keywords_lower, text_lower)
             data_score == score_data_keywords(c, text_lower)
         IN IF conv # {} /\ data_score < 2
            THEN ClassificationResult(CONVERSATIONAL, 8,
                     <<c.conv_keywords_lower[CHOOSE i \in conv : \A j \in conv : i <= j]>>)
            ELSE IF \E i \in DOMAIN c.data_patterns :
                        re_search(c.data_patterns[i], text_lower) # -1
            THEN ClassificationResult(DATA_LOOKUP, 9, <<>>)
            ELSE IF data_score >= c.confidence_threshold
            THEN ClassificationResult(DATA_LOOKUP, Min(data_score, 10),
                     get_matched_keywords(c.data_keywords_lower, text_lower))
            ELSE ClassificationResult(SIMPLE, 10 - data_score, <<>>)

\* list.remove: the first occurrence
RECURSIVE ListRemove(_, _)
ListRemove(l, x) ==
    IF l = <<>> THEN <<>>
    ELSE IF Head(l) = x THEN Tail(l) ELSE <<Head(l)>> \o ListRemove(Tail(l), x)

\* the configurations a classifier is built with, the keywords add_keyword
\* and remove_keyword are called with, and the texts classify is called with
SmallConfigs ==
    {[data_keywords |-> <<>>,
      conversational_keywords |-> cv,
      data_question_patterns |-> ps,
      confidence_threshold |-> th] :
        cv \in {<<>>, << <<"c">> >>},
        \* ^e\s*(d|c)
        ps \in {<<>>, << <<Bol, Alt({<<"e">>}), Rep(Whitespace, 0, -1),
                           Alt({<<"d">>, <<"c">>})>> >>},
        th \in {3, 7}}
KeywordPool == {<<"d">>, <<"e">>, <<"d", "e">>, <<"d", " ", "e">>}
ClassifyWords == {<<"d">>, <<"e">>, <<"c">>, <<" ">>, <<"D">>}
ClassifyTexts == {Flatten(ws) : ws \in WordSeqs(ClassifyWords, MaxChars)}
\* two texts for the default keywords: one multi-word keyword, two single ones
HowManyText == <<"h", "o", "w", " ", "m", "a", "n", "y">>
FindListText == <<"f", "i", "n", "d", " ", "l", "i", "s", "t">>
ScoredTexts == {HowManyText, FindListText}

NoClassify == [text |-> <<>>, result |-> ClassificationResult("none", 0, <<>>)]

\* no classifier is built yet; SpecClassify starts with one
NoClassifier == <<>>
ClassifierInit ==
    /\ classifier = NoClassifier
    /\ cl_last = NoClassify

\* classifier.classify(text); the caller makes one call at a time
Classify(text) ==
    /\ cl_last = NoClassify
    /\ cl_last' = [text |-> text, result |-> classify(classifier, text)]
    /\ UNCHANGED classifier
    /\ UNCHANGED not_classify_vars

\* the caller is done with the result of its call
ResultUsed ==
    /\ cl_last # NoClassify
    /\ cl_last' = NoClassify
    /\ UNCHANGED classifier
    /\ UNCHANGED not_classify_vars

\* KeywordClassifier.add_keyword
AddKeyword(keyword) ==
    /\ cl_last = NoClassify
    /\ Len(classifier.data_keywords_lower) < MaxKeywords
    /\ classifier' =
         IF \E i \in DOMAIN classifier.data_keywords_lower :
                classifier.data_keywords_lower[i] = str_lower(keyword)
         THEN classifier
         ELSE [classifier EXCEPT
                 !.data_keywords_lower = Append(@, str_lower(keyword)),
                 !.config_data_keywords = Append(@, keyword)]
    /\ UNCHANGED cl_last
    /\ UNCHANGED not_classify_vars

\* KeywordClassifier.remove_keyword
RemoveKeyword(keyword) ==
    /\ cl_last = NoClassify
    /\ classifier' =
         [classifier EXCEPT
            !.data_keywords_lower = ListRemove(@, str_lower(keyword)),
            !.config_data_keywords = ListRemove(@, keyword)]
    /\ UNCHANGED cl_last
    /\ UNCHANGED not_classify_vars

ClassifyNext ==
    \/ \E text \in ClassifyTexts \cup ScenarioATexts \cup ScoredTexts : Classify(text)
    \/ ResultUsed
    \/ \E keyword \in KeywordPool : AddKeyword(keyword)
    \/ \E keyword \in KeywordPool : RemoveKeyword(keyword)

(***************************************************************************)
(* OrderAgent (mvoicefinal/src/order_agent.py)                             *)
(***************************************************************************)
ASK_IDENTIFIER == "ask_identifier"
LOOKUP == "lookup"
PASS_THROUGH == "pass_through"

\* _ORDER_INTENT_RE
ORDER_INTENT_RE ==
    <<Wb,
      Alt({
          <<"o", "r", "d", "e", "r">>, <<"o", "r", "d", "e", "r", "s">>,
          <<"b", "e", "s", "t", "e", "l", "l", "u", "n", "g">>,
          <<"b", "e", "s", "t", "e", "l", "l", "u", "n", "g", "e", "n">>,
          <<"b", "e", "s", "t", "e", "l", "l", "e", "n">>,
          <<"b", "e", "s", "t", "e", "l", "l", "t">>,
          <<"l", "i", "e", "f", "e", "r", "u", "n", "g">>,
          <<"l", "i", "e", "f", "e", "r", "s", "t", "a", "t", "u", "s">>,
          <<"l", "i", "e", "f", "e", "r", "z", "e", "i", "t">>,
          <<"z", "u", "s", "t", "e", "l", "l", "u", "n", "g">>,
          <<"v", "e", "r", "s", "a", "n", "d">>,
          <<"s", "e", "n", "d", "u", "n", "g">>, <<"p", "a", "k", "e", "t">>,
          <<"t", "r", "a", "c", "k", "i", "n", "g">>,
          <<"s", "t", "a", "t", "u", "s">>}),
      Wb>>

\* [A-Za-z...\-]
NameChars == Letters \cup {"-"}
\* ([A-Za-z...\-]+\s+[A-Za-z...\-]+)\b
NameGroup == <<Rep(NameChars, 1, -1), Rep(Whitespace, 1, -1), Rep(NameChars, 1, -1), Wb>>
\* (?:my name is|i am|this is)\s+ and (?:ich bin|mein name ist)\s+
NamePrefixes ==
    << <<Alt({<<"m", "y", " ", "n", "a", "m", "e", " ", "i", "s">>, <<"i", " ", "a", "m">>, <<"t", "h", "i", "s", " ", "i", "s">>}), Rep(Whitespace, 1, -1)>>,
       <<Alt({<<"i", "c", "h", " ", "b", "i", "n">>, <<"m", "e", "i", "n", " ", "n", "a", "m", "e", " ", "i", "s", "t">>}), Rep(Whitespace, 1, -1)>> >>

\* m.group(1) of re.search(prefix + group, s): the leftmost match, the
\* whitespace and the names greedy
Group1(prefix, group, s) ==
    LET i == re_search(prefix \o group, s)
        from == MaxOf({j \in MatchSeq(prefix, s, {i}) : MatchSeq(group, s, {j}) # {}})
    IN Slice(s, from, MaxOf(MatchSeq(group, s, {from})))

\* t[0].isalpha()
IsAlpha(c) == c \in Letters

\* _maybe_extract_customer_name
maybe_extract_customer_name(text) ==
    IF text = <<>> THEN None
    ELSE LET cleaned == str_strip(text)
             hits == {k \in DOMAIN NamePrefixes :
                        re_search(NamePrefixes[k] \o NameGroup, cleaned) # -1}
             tokens == str_split(cleaned)
         IN IF hits # {}
            THEN str_strip(Group1(NamePrefixes[CHOOSE k \in hits : \A h \in hits : k <= h],
                                  NameGroup, cleaned))
            ELSE IF Len(tokens) = 2 /\ \A n \in 1..2 : IsAlpha(tokens[n][1])
            THEN cleaned
            ELSE None

\* OrderConversationState()
OrderConversationState ==
    [awaiting_identifier |-> FALSE, last_intent |-> None,
     last_customer_name |-> None, last_order_id |-> None]

OrderAgentAction(type, order_id, customer_name) ==
    [type |-> type, order_id |-> order_id, customer_name |-> customer_name]

\* is_order_related of decide
IsOrderRelatedIntentOnly(text, awaiting) == re_search(ORDER_INTENT_RE, text) # -1
IsOrderRelated(text, awaiting) == re_search(ORDER_INTENT_RE, text) # -1 \/ awaiting

\* OrderAgent.decide: the action returned and the state it leaves
decide(state, transcript) ==
    LET text == str_strip(transcript)
        order_id == extract_order_id(text)
        customer_name == maybe_extract_customer_name(text)
        related == IsOrderRelated(text, state.awaiting_identifier)
        cleared == [state EXCEPT !.awaiting_identifier = FALSE]
    IN IF text = <<>> \/ ~related
       THEN [action |-> OrderAgentAction(PASS_THROUGH, None, None), state |-> state]
       ELSE IF order_id # None
       THEN [action |-> OrderAgentAction(LOOKUP, order_id, None),
             state |-> [cleared EXCEPT !.last_order_id = order_id]]
       ELSE IF customer_name # None
       THEN [action |-> OrderAgentAction(LOOKUP, None, customer_name),
             state |-> [cleared EXCEPT !.last_customer_name = customer_name]]
       ELSE [action |-> OrderAgentAction(ASK_IDENTIFIER, None, None),
             state |-> [cleared EXCEPT !.awaiting_identifier = TRUE]]

\* the utterances decide is called with: up to MaxUtterance of these words,
\* and the utterance of Scenario E, "Meine Kundennummer ist C-1001"
DecideWords == {<<" ">>, <<"x", " ", "x">>, <<"s", "t", "a", "t", "u", "s">>,
                <<"O", "R", "D", "-", "5", "5", "5">>,
                <<" ", "i", "c", "h", " ", "b", "i", "n", " ", "x", " ", "x">>}
DecideTexts == {Flatten(ws) : ws \in WordSeqs(DecideWords, MaxUtterance)}
KundennummerText ==
    <<"M", "e", "i", "n", "e", " ", "K", "u", "n", "d", "e", "n", "n", "u", "m", "m", "e", "r", " ", "i", "s", "t", " ", "C", "-", "1", "0", "0", "1">>

NoAction == [text |-> <<>>, action |-> OrderAgentAction("none", None, None)]

OrderAgentInit ==
    /\ agent_state = OrderConversationState
    /\ last_action = NoAction

\* action = await self.agent.decide(transcript); the bridge makes one call
\* at a time
Decide(transcript) ==
    /\ last_action = NoAction
    /\ LET decided == decide(agent_state, transcript)
       IN /\ last_action' = [text |-> transcript, action |-> decided.action]
          /\ agent_state' = decided.state
    /\ UNCHANGED not_agent_vars

\* the bridge is done with the action
ActionUsed ==
    /\ last_action # NoAction
    /\ last_action' = NoAction
    /\ UNCHANGED agent_state
    /\ UNCHANGED not_agent_vars

OrderAgentNext ==
    \/ \E transcript \in DecideTexts \cup {KundennummerText} : Decide(transcript)
    \/ ActionUsed

(***************************************************************************)
(* ConversationContext (src/voice_agent/session_manager.py)                *)
(***************************************************************************)
\* ConversationContext()
ConversationContext ==
    [session_id |-> "", thread_id |-> "", turn_count |-> 0,
     customer_id |-> None, transcript_history |-> <<>>]

\* ConversationContext.add_turn
add_turn_stale(self, role, text) ==
    [self EXCEPT !.turn_count = @ + 1,
                 !.transcript_history =
                     Append(@, [turn |-> self.turn_count, role |-> role, text |-> text])]
add_turn(self, role, text) ==
    [self EXCEPT !.turn_count = @ + 1,
                 !.transcript_history =
                     Append(@, [turn |-> self.turn_count + 1, role |-> role, text |-> text])]

Roles == {"customer", "agent"}
TurnTexts == {"Wo ist meine Bestellung?", ""}

ContextInit ==
    /\ context = ConversationContext
    /\ add_turn_calls = <<>>

\* self._context.add_turn(role, text)
AddTurn(role, text) ==
    /\ Len(add_turn_calls) < MaxTurns
    /\ context' = add_turn(context, role, text)
    /\ add_turn_calls' = Append(add_turn_calls, [role |-> role, text |-> text])
    /\ UNCHANGED not_context_vars

ContextNext == \E role \in Roles, text \in TurnTexts : AddTurn(role, text)

(***************************************************************************)
(* VoiceAgentBridge._handle_voice_event, function-calling path: from the   *)
(* FUNCTION_CALL_STARTED and FUNCTION_CALL_ARGUMENTS_DONE events of a tool *)
(* call to the two results its handler sends                               *)
(***************************************************************************)
ToolCalls == 1..MaxToolCalls
CallId(k) == <<"call", k>>
ItemId(k) == <<"item", k>>
ToolName(k) == <<"name", k>>

\* self._pending_function_call = None, read as `... or {}`: every get gives None
NoPending == [name |-> None, call_id |-> None, item_id |-> None]
NoHandler == [call_id |-> None, previous_item_id |-> None, sent |-> <<>>]

DispatchInit ==
    /\ pending_function_call = NoPending
    /\ fc_events = [k \in ToolCalls |-> "none"]
    /\ fc_handler = [k \in ToolCalls |-> NoHandler]
    /\ bridge_running = TRUE

\* FUNCTION_CALL_STARTED of tool call k
FunctionCallStarted(k) ==
    /\ bridge_running
    /\ fc_events[k] = "none"
    /\ fc_events' = [fc_events EXCEPT ![k] = "started"]
    /\ pending_function_call' =
         [name |-> ToolName(k), call_id |-> CallId(k), item_id |-> ItemId(k)]
    /\ UNCHANGED <<fc_handler, bridge_running>>
    /\ UNCHANGED not_dispatch_vars

\* item_id = fc.get("item_id")
AnchorOf(fc, k) == fc.item_id

\* FUNCTION_CALL_ARGUMENTS_DONE of tool call k; with_ids: the event data
\* carry "call_id" and "name"
FunctionCallArgumentsDone(k, with_ids) ==
    /\ bridge_running
    /\ fc_events[k] = "started"
    /\ fc_events' = [fc_events EXCEPT ![k] = "done"]
    /\ LET fc == pending_function_call
           call_id == IF with_ids THEN CallId(k) ELSE fc.call_id
           name == IF with_ids THEN ToolName(k) ELSE fc.name
           item_id == AnchorOf(fc, k)
       IN fc_handler' =
            IF name # None /\ call_id # None
            THEN [fc_handler EXCEPT ![k] = [call_id |-> call_id,
                                           previous_item_id |-> item_id,
                                           sent |-> <<>>]]
            ELSE fc_handler
    /\ pending_function_call' = NoPending
    /\ UNCHANGED bridge_running
    /\ UNCHANGED not_dispatch_vars

\* _do_function_call, steps 1 and 4: send_function_call_output(call_id=...,
\* output=..., previous_item_id=...)
SendOutput(k, kind) ==
    /\ fc_handler[k].call_id # None
    /\ Len(fc_handler[k].sent) = (IF kind = "placeholder" THEN 0 ELSE 1)
    /\ fc_handler' =
         [fc_handler EXCEPT ![k].sent =
             Append(@, [kind |-> kind, call_id |-> fc_handler[k].call_id,
                        previous_item_id |-> fc_handler[k].previous_item_id,
                        running |-> bridge_running])]
    /\ UNCHANGED <<pending_function_call, fc_events, bridge_running>>
    /\ UNCHANGED not_dispatch_vars

\* VoiceAgentBridge.stop() of a bridge in function-calling mode, whose task
\* manager holds no task: the event handler is removed and the call returns
Stop ==
    /\ bridge_running
    /\ bridge_running' = FALSE
    /\ UNCHANGED <<pending_function_call, fc_events, fc_handler>>
    /\ UNCHANGED not_dispatch_vars

DispatchNext ==
    \/ \E k \in ToolCalls : FunctionCallStarted(k)
    \/ \E k \in ToolCalls, with_ids \in BOOLEAN : FunctionCallArgumentsDone(k, with_ids)
    \/ \E k \in ToolCalls, kind \in {"placeholder", "real"} : SendOutput(k, kind)
    \/ Stop

(***************************************************************************)
(* SessionManager: the session state around the transcription handler,     *)
(* which VoiceLiveClient._receive_loop awaits through _dispatch            *)
(***************************************************************************)
IDLE == "idle"
CONNECTING == "connecting"
ACTIVE == "active"
PROCESSING == "processing"
DISCONNECTED == "disconnected"

NoSessionOp == [handler |-> "none", call |-> "none"]

SessionInit ==
    /\ sm_state = IDLE
    /\ sm_pc = "idle"
    /\ sm_stop = "none"
    /\ sm_handled = 0
    /\ sm_last = NoSessionOp

\* start() up to its first await
SessionStart ==
    /\ sm_state = IDLE
    /\ sm_state' = CONNECTING
    /\ UNCHANGED <<sm_pc, sm_stop, sm_handled, sm_last>>
    /\ UNCHANGED not_session_vars

\* start(): the agent and the connection are there, the handlers registered
SessionStarted ==
    /\ sm_state = CONNECTING
    /\ sm_stop = "none"
    /\ sm_state' = ACTIVE
    /\ UNCHANGED <<sm_pc, sm_stop, sm_handled, sm_last>>
    /\ UNCHANGED not_session_vars

\* the state the handler leaves when it ends at a given place: the
\* assignment of ACTIVE is the last statement of the body, reached only when
\* both awaits returned
StateAfter(state, how) == IF how = "returned" THEN ACTIVE ELSE state

\* _on_transcription_completed up to the await of the agent call
TranscriptionCompleted(blank) ==
    /\ sm_state \in {ACTIVE, PROCESSING}
    /\ sm_stop = "none"
    /\ sm_pc = "idle"
    /\ sm_handled < MaxTranscripts
    /\ sm_handled' = sm_handled + 1
    /\ IF blank
       THEN /\ sm_last' = [sm_last EXCEPT !.handler = "blank"]
            /\ UNCHANGED <<sm_state, sm_pc>>
       ELSE /\ sm_state' = PROCESSING
            /\ sm_pc' = "agent"
            /\ sm_last' = [sm_last EXCEPT !.handler = "none"]
    /\ UNCHANGED sm_stop
    /\ UNCHANGED not_session_vars

\* asyncio.to_thread(process_message, ...) returns or raises
AgentCallEnds(how) ==
    /\ sm_pc = "agent"
    /\ IF how = "returned"
       THEN /\ sm_pc' = "send"
            /\ UNCHANGED <<sm_state, sm_last>>
       ELSE /\ sm_pc' = "idle"
            /\ sm_state' = StateAfter(sm_state, how)
            /\ sm_last' = [sm_last EXCEPT !.handler = how]
    /\ UNCHANGED <<sm_stop, sm_handled>>
    /\ UNCHANGED not_session_vars

\* send_agent_response returns or raises; the handler ends
SendAgentResponseEnds(how) ==
    /\ sm_pc = "send"
    /\ sm_pc' = "idle"
    /\ sm_state' = StateAfter(sm_state, how)
    /\ sm_last' = [sm_last EXCEPT !.handler = how]
    /\ UNCHANGED <<sm_stop, sm_handled>>
    /\ UNCHANGED not_session_vars

\* handle_audio / send_text: forwarded in state ACTIVE, refused otherwise
SessionSend(op) ==
    /\ sm_last' = [sm_last EXCEPT !.call = IF sm_state = ACTIVE THEN "forwarded"
                                           ELSE "refused"]
    /\ UNCHANGED <<sm_state, sm_pc, sm_stop, sm_handled>>
    /\ UNCHANGED not_session_vars

\* stop() up to the end of disconnect(): the receive task is cancelled, and
\* with it the handler it is awaiting
SessionStop ==
    /\ sm_state \in {ACTIVE, PROCESSING}
    /\ sm_stop = "none"
    /\ sm_stop' = "disconnecting"
    /\ sm_pc' = "idle"
    /\ sm_last' = IF sm_pc = "idle" THEN sm_last
                  ELSE [sm_last EXCEPT !.handler = "cancelled"]
    /\ UNCHANGED <<sm_state, sm_handled>>
    /\ UNCHANGED not_session_vars

\* stop(): self._state = SessionState.DISCONNECTED
SessionStopped ==
    /\ sm_stop = "disconnecting"
    /\ sm_stop' = "done"
    /\ sm_state' = DISCONNECTED
    /\ UNCHANGED <<sm_pc, sm_handled, sm_last>>
    /\ UNCHANGED not_session_vars

SessionNext ==
    \/ SessionStart
    \/ SessionStarted
    \/ \E blank \in BOOLEAN : TranscriptionCompleted(blank)
    \/ \E how \in {"returned", "raised"} : AgentCallEnds(how)
    \/ \E how \in {"returned", "raised"} : SendAgentResponseEnds(how)
    \/ \E op \in {"handle_audio", "send_text"} : SessionSend(op)
    \/ SessionStop
    \/ SessionStopped

(***************************************************************************)
(* The polling orchestrators: background queries, and the checker task     *)
(* that injects their results                                              *)
(***************************************************************************)
INJECTED == "injected"
Queries == 1..MaxQueries

\* list(self.pending_queries.items()): the keys in insertion order, which is
\* the order of the query ids
ItemsOf(keys) ==
    CHOOSE seq \in [1..Cardinality(keys) -> keys] :
        \A i, j \in 1..Cardinality(keys) : i < j => seq[i] < seq[j]

PollingInit ==
    /\ pending_queries = {}
    /\ q_state = [q \in Queries |-> "none"]
    /\ q_result = [q \in Queries |-> "none"]
    /\ chk_pc = "sleep"
    /\ chk_todo = <<>>
    /\ q_log = [q \in Queries |-> <<>>]

\* a tool call / transcript starts a background query: PendingQuery(state=
\* RUNNING), create_task, self.pending_queries[query_id] = pending
StartQuery(q) ==
    /\ q_state[q] = "none"
    /\ \A p \in Queries : p < q => q_state[p] # "none"
    /\ q_state' = [q_state EXCEPT ![q] = RUNNING]
    /\ pending_queries' = pending_queries \cup {q}
    /\ UNCHANGED <<q_result, chk_pc, chk_todo, q_log>>
    /\ UNCHANGED not_polling_vars

\* _execute_tool_in_background / _process_with_agent: the work returns, or
\* raises and the fixed error text is stored
QueryEnds(q, how) ==
    /\ q_state[q] = RUNNING
    /\ q_state' = [q_state EXCEPT ![q] = COMPLETED]
    /\ q_result' = [q_result EXCEPT ![q] = IF how = "returns" THEN "result"
                                           ELSE "error_text"]
    /\ UNCHANGED <<pending_queries, chk_pc, chk_todo, q_log>>
    /\ UNCHANGED not_polling_vars

\* the test of the checker on one entry of its list
InjectableAnyState(state) == TRUE
Injectable(state) == state = COMPLETED

\* asyncio.sleep(0.5) is over: the checker takes its list
CheckerWakes ==
    /\ chk_pc = "sleep"
    /\ chk_pc' = "scan"
    /\ chk_todo' = ItemsOf(pending_queries)
    /\ UNCHANGED <<pending_queries, q_state, q_result, q_log>>
    /\ UNCHANGED not_polling_vars

\* one round of the for loop up to its first await: skip_pending_audio, then
\* response.cancel() when a turn is active, _inject_result otherwise
CheckerScan(turn_active) ==
    /\ chk_pc = "scan"
    /\ IF chk_todo = <<>>
       THEN /\ chk_pc' = "sleep"
            /\ UNCHANGED <<chk_todo, q_log>>
       ELSE IF Injectable(q_state[Head(chk_todo)])
       THEN /\ chk_pc' = IF turn_active THEN "cancel" ELSE "inject"
            /\ q_log' = [q_log EXCEPT ![Head(chk_todo)] = Append(@, "skip")]
            /\ UNCHANGED chk_todo
       ELSE /\ chk_todo' = Tail(chk_todo)
            /\ UNCHANGED <<chk_pc, q_log>>
    /\ UNCHANGED <<pending_queries, q_state, q_result>>
    /\ UNCHANGED not_polling_vars

\* response.cancel() has returned or raised
CheckerCancelled ==
    /\ chk_pc = "cancel"
    /\ chk_pc' = "inject"
    /\ q_log' = [q_log EXCEPT ![Head(chk_todo)] = Append(@, "cancel")]
    /\ UNCHANGED <<pending_queries, q_state, q_result, chk_todo>>
    /\ UNCHANGED not_polling_vars

\* _inject_result(pending.result) has returned (the log takes the result
\* that went out): state INJECTED, del self.pending_queries[id]
CheckerInjected ==
    /\ chk_pc = "inject"
    /\ chk_pc' = "scan"
    /\ q_log' = [q_log EXCEPT ![Head(chk_todo)] = Append(@, q_result[Head(chk_todo)])]
    /\ q_state' = [q_state EXCEPT ![Head(chk_todo)] = INJECTED]
    /\ pending_queries' = pending_queries \ {Head(chk_todo)}
    /\ chk_todo' = Tail(chk_todo)
    /\ UNCHANGED q_result
    /\ UNCHANGED not_polling_vars

CheckerStep ==
    \/ CheckerWakes
    \/ \E turn_active \in BOOLEAN : CheckerScan(turn_active)
    \/ CheckerCancelled
    \/ CheckerInjected

PollingNext ==
    \/ \E q \in Queries : StartQuery(q)
    \/ \E q \in Queries, how \in {"returns", "raises"} : QueryEnds(q, how)
    \/ CheckerStep

AudioNext ==
    \/ \E data \in 0..MaxData : QueueAudio(data)
    \/ SkipPendingAudio
    \/ CallbackBegin
    \/ CallbackGet
    \/ CallbackExamine
    \/ CallbackReturn

FnInit ==
    /\ ExtractInit /\ ClassifierInit /\ OrderAgentInit /\ ContextInit
    /\ DispatchInit /\ SessionInit /\ PollingInit

Init == AudioInit /\ TMInit /\ TurnInit /\ ClockInit /\ BridgeInit /\ FnInit

SpecAudio == Init /\ [][AudioNext]_vars

SpecTM == Init /\ [][TMNext]_vars

\* the steps of a spawned asyncio task, the deadline of wait_for included
TaskSteps(t) ==
    \/ TaskStart(t)
    \/ \E how \in {"inner_ok", "inner_err", "inner_to"} : WorkEnds(t, how)
    \/ \E keeps \in BOOLEAN : TaskResume(t, keeps)
    \/ CallbackDone(t)
    \/ CallbackCancelled(t)

\* a caller suspended in shutdown / cancel_task goes on once it can
CallerSteps(c) == ShutdownCancels(c) \/ CancelTaskResumes(c)

\* the event loop runs every task that is ready, and every wait_for deadline
\* passes
SpecTMFair ==
    /\ SpecTM
    /\ \A t \in Tasks : WF_vars(TaskSteps(t))
    /\ \A c \in Callers : WF_vars(CallerSteps(c))

\* the task manager with the passing of time and the periodic sweep
SpecSweep == Init /\ [][SweepNext]_vars

\* the bridge in transcript-interception mode with its task manager
SpecBridge == Init /\ [][BridgeNext]_vars

\* extract_order_id applied to every text of ExtractTexts, and to its result
InitExtract ==
    /\ AudioInit /\ TMInit /\ TurnInit /\ ClockInit /\ BridgeInit
    /\ x_text \in ExtractTexts /\ x_pc = "in" /\ x_out = None /\ x_again = None
    /\ ClassifierInit /\ OrderAgentInit /\ ContextInit
    /\ DispatchInit /\ SessionInit /\ PollingInit
SpecExtract == InitExtract /\ [][ExtractNext]_vars

\* a classifier built with one of the configurations, then classify,
\* add_keyword and remove_keyword in any order
InitClassify ==
    /\ AudioInit /\ TMInit /\ TurnInit /\ ClockInit /\ BridgeInit /\ ExtractInit
    /\ OrderAgentInit /\ ContextInit
    /\ DispatchInit /\ SessionInit /\ PollingInit
    /\ classifier \in {KeywordClassifier(config) :
                           config \in SmallConfigs \cup {DefaultConfig}}
    /\ cl_last = NoClassify
SpecClassify == InitClassify /\ [][ClassifyNext]_vars

\* the order agent of one conversation, utterance after utterance
SpecOrderAgent == Init /\ [][OrderAgentNext]_vars

\* the conversation context of one session, turn after turn
SpecContext == Init /\ [][ContextNext]_vars

\* the function-call events of the tool calls, in any order the transport
\* may send them, and the handlers they start
SpecDispatch == Init /\ [][DispatchNext]_vars

\* one SessionManager from start() to stop()
SpecSession == Init /\ [][SessionNext]_vars

\* the background queries of a polling orchestrator and its checker task,
\* which runs as long as the session does
SpecPolling == Init /\ [][PollingNext]_vars /\ WF_vars(CheckerStep)

SpecTurn == Init /\ [][TurnNext]_vars

\* every started turn is finalized and every delivered event is handled
SpecTurnFair == SpecTurn /\ WF_vars(TurnProgress)
\* ... and the function-call handlers take every step that is theirs to
\* take, while the backend may never answer
SpecHandlerFair == SpecTurnFair /\ WF_vars(HandlerProgress)
\* every asyncio.sleep of a turn-clear wait returns; nothing else is assumed
\* to happen
Polling == \E k \in Calls : TurnClearPoll(k)
SpecWaitFair == SpecTurn /\ WF_vars(Polling)

(***************************************************************************)
(* Claims about the AudioProcessor                                         *)
(***************************************************************************)
IsSkipStep == lastOp' = "skip_pending_audio"

DrainRule ==
    (lastDrain.seq_num >= 0 /\ lastDrain.data > 0)
        => (lastDrain.played <=> lastDrain.seq_num >= lastDrain.base)

BaseOnlyBySkip ==
    [][playback_base' # playback_base
         => (IsSkipStep /\ playback_base' > playback_base)]_vars

\* C7: a packet carrying audio is played if and only if its sequence number
\* is >= playback_base at the moment the playback callback examines it, and
\* playback_base is changed only by skip_pending_audio and never decreases.
C7_PlayedIffAtOrAboveBase == []DrainRule /\ BaseOnlyBySkip

\* a packet was played although a skip had moved the base before
C7_Witness ==
    /\ lastDrain # NoDrain
    /\ lastDrain.data > 0 /\ lastDrain.played
    /\ lastDrain.base > 0

SkippedDrainRule ==
    (lastDrain.seq_num >= 0 /\ lastDrain.data > 0)
        => (lastDrain.skipped <=> ~lastDrain.played)

\* C8: skip_pending_audio sets playback_base to the next sequence number not
\* yet issued; every audio packet enqueued before a skip and not yet examined
\* is discarded when it is drained, and every audio packet enqueued after the
\* last skip is played.
C8_SkipCutsAtNextSeq ==
    /\ [][IsSkipStep => playback_base' = next_seq_num]_vars
    /\ []SkippedDrainRule

\* the packet enqueued last before a skip is discarded
C8_Witness ==
    /\ lastDrain # NoDrain
    /\ lastDrain.data > 0 /\ lastDrain.skipped /\ ~lastDrain.played
    /\ lastDrain.seq_num = lastDrain.base - 1

ScenarioD(assigned) ==
    /\ scenD.stage = "enq" => scenD.seq = assigned
    /\ (scenD.stage \in {"skipped", "enq"} /\ lastDrain.seq_num \in {5, 6})
          => ~lastDrain.played
    /\ (scenD.stage = "enq" /\ lastDrain.seq_num = scenD.seq) => lastDrain.played

\* C9 (as amended): with packets 5 and 6 queued, skip_pending_audio takes
\* sequence number 7 for the new base, so the next queue_audio assigns 8;
\* draining then discards 5 and 6 and plays packet 8.
C9_ScenarioD_Assigns8 == ScenarioD(8)

\* C9 as stated: the enqueue after the skip assigns sequence 7.
C9_ScenarioD_Assigns7 == ScenarioD(7)

\* the packet enqueued after the skip has been played
C9_Witness ==
    /\ scenD.stage = "enq"
    /\ lastDrain.seq_num = scenD.seq /\ lastDrain.played
(***************************************************************************)
(* Claims about the PendingTaskManager                                     *)
(***************************************************************************)
\* C1: the number of registered tasks whose status is PENDING or RUNNING
\* never exceeds max_concurrent_tasks.
C1_PendingWithinCap == pending_count <= max_concurrent_tasks

\* the manager is full and has just refused a spawn
C1_Witness ==
    /\ pending_count = max_concurrent_tasks
    /\ lastSpawn.ret = 0

\* C2 as stated: a status that is COMPLETED, FAILED, TIMEOUT or CANCELLED
\* never changes again.
C2_TerminalIsFinal ==
    [][\A t \in Tasks : tm_status[t] \in Terminal => tm_status'[t] = tm_status[t]]_vars

SpawnCalled == lastSpawn # NoSpawn

\* C3: spawn returns a task id exactly when fewer than max_concurrent_tasks
\* tasks are PENDING or RUNNING at the call (so a spawn refused at capacity is
\* accepted once a running task is terminal); a spawn that returns None
\* creates no task, leaves the registry as it is and calls no start callback.
C3_SpawnAdmission ==
    /\ [](SpawnCalled =>
            /\ lastSpawn.ret # 0 <=> lastSpawn.pending_before < max_concurrent_tasks
            /\ lastSpawn.ret = 0 => pending_count = max_concurrent_tasks
            /\ lastSpawn.ret # 0 =>
                 /\ lastSpawn.ret \in tm_tasks
                 /\ tm_status[lastSpawn.ret] = RUNNING
                 /\ cb_count.start[lastSpawn.ret] = 1)
    /\ [][lastSpawn'.ret = 0 =>
            UNCHANGED <<tm_tasks, tm_status, tm_result, task_counter, tpc, cb_count>>]_vars

\* a spawn is accepted right after one was refused at capacity
C3_Witness ==
    /\ lastSpawn.ret # 0
    /\ lastSpawn.after_reject
    /\ lastSpawn.pending_before = max_concurrent_tasks - 1
(***************************************************************************)
(* Claims about the turn tracker and the function-call handler             *)
(***************************************************************************)
IssuesStart == lastReq' \in {"started", "deferred_start"}

\* C4: the service never issues a start (response.create) while a turn is
\* active or while a start issued earlier has not been finalized by a
\* handled RESPONSE_DONE.
C4_OneTurnInFlight ==
    [][IssuesStart => (~active_response /\ open_starts = 0)]_vars

\* C5: in every reachable state, _pending_response_request is set only while
\* _active_response is set.
C5_PendingOnlyWhileActive == pending_response_request => active_response

RequestOwed == owed
StartIssued == ~owed

\* C6, as stated: no request_response call returns without a start issued or
\* a start deferred, and every deferred start is issued in the end.
C6_NoRequestDropped ==
    /\ [](lastReq # "dropped")
    /\ (RequestOwed ~> StartIssued)

\* C6, amended: a request_response call made while the session is ready is
\* not dropped, and every deferred start is issued in the end.
C6_NoReadyRequestDropped ==
    /\ [](lastReq = "dropped" => ~session_ready)
    /\ (RequestOwed ~> StartIssued)

\* a deferred request was served by the start RESPONSE_DONE issues
C6_Witness ==
    /\ lastReq = "deferred_start"
    /\ ~owed
    /\ session_ready

IsPrefix(s, t) == Len(s) <= Len(t) /\ \A i \in 1..Len(s) : s[i] = t[i]

C12_DeadlineGivesTimeout ==
    /\ [](\A t \in Tasks :
            (tpc[t] = "inner_to" \/ tm_result[t] = "timed_out") =>
               (tm_status[t] # COMPLETED /\ cb_count.complete[t] = 0))
    /\ [](\A t \in Tasks : tm_result[t] = "timed_out" => cb_count.error[t] = 1)
    /\ [][\A t \in Tasks :
            (tpc[t] = "inner_to" /\ tpc'[t] # "inner_to" /\ ~cancel_req[t]) =>
               /\ tm_status'[t] = TIMEOUT
               /\ tm_result'[t] = "timed_out"
               /\ tpc'[t] = "cb_error"
               /\ cb_count'.error[t] = cb_count.error[t] + 1]_vars

\* the error callback of a timed-out task has returned
C12_Witness ==
    \E t \in Tasks :
        /\ tm_status[t] = TIMEOUT
        /\ tm_result[t] = "timed_out"
        /\ tpc[t] = "done"
        /\ cb_count.error[t] = 1

C14_AcceptedTaskTerminates ==
    \A t \in Tasks : (tm_status[t] = RUNNING) ~> (tm_status[t] \in Terminal)

\* a call of shutdown() returns in this step
ShutdownReturns ==
    \E c \in Callers :
        /\ \/ Shutdown(c)
           \/ ShutdownCancels(c)
           \/ (caller[c].op = "shutdown" /\ CancelTaskResumes(c))
        /\ caller'[c].op = "idle"

\* C15 as stated: when shutdown() returns, no unit of work spawned before is
\* still running and none is about to have its complete / error callback
\* called, tasks spawned while shutdown was in progress included.
C15_NothingRunsAfterShutdown ==
    [][ShutdownReturns =>
         \A t \in Tasks : tpc'[t] \notin {"wait", "inner_ok", "inner_err", "inner_to"}]_vars

\* C16 as stated: the sweep removes a task from the registry only if the task
\* has been in a terminal state for longer than cleanup_completed_after.
C16_SweepOnlyAfterRetention ==
    [][\A t \in Tasks :
         (t \in tm_tasks /\ t \notin tm_tasks') =>
            (tm_status[t] \in Terminal /\ OldByTermination(t))]_vars

\* C17: when the lookup of step 2 raises, the exception is caught there, the
\* fixed error payload (never the text of the exception) becomes the real
\* tool result, and the handler goes on with interrupt, cancel, send and
\* request exactly as after a lookup that returned; no handler crashes.
C17_LookupErrorHandled ==
    /\ [][\A k \in Calls :
            BackendLookup(k, "raises") =>
               (lookup_result'[k] = "error_payload" /\ fpc'[k] = "skip")]_vars
    /\ [](\A k \in Calls :
            /\ fpc[k] # "crashed"
            /\ lookup_result[k] # "exception_text"
            /\ sent_result[k] \in {"none", lookup_result[k]}
            /\ fpc[k] = "done" =>
                  (flog[k] = HandlerOps /\ sent_result[k] = lookup_result[k]))

\* a handler whose lookup raised has run to its end
C17_Witness ==
    \E k \in Calls :
        /\ fpc[k] = "done"
        /\ sent_result[k] = "error_payload"
        /\ flog[k] = HandlerOps

\* C18 as stated: a lookup decided while the manager is at capacity is
\* never spawned.
C18_DecidedAtCapacityNeverSpawned == bpc = "spawn" => ~at_cap_decide

BusyOps == <<"msg_ack", "request_interrupt", "msg_busy", "request">>

\* C18, amended: when the capacity check of a lookup finds as many
\* PENDING/RUNNING tasks as max_concurrent_tasks, the busy message and then a
\* next-turn request go out and the handling ends; no task is created in
\* that step or while the busy answer goes out, and a task is only ever
\* created by a lookup whose check found a free slot.
C18_BusyWhenCheckedAtCapacity ==
    /\ [][(bpc = "check" /\ bpc' # "check") =>
            IF pending_count >= max_concurrent_tasks
            THEN /\ bpc' = "busy_request"
                 /\ ev_ops' = Append(ev_ops, "msg_busy")
                 /\ UNCHANGED tm_vars
            ELSE bpc' = "spawn"]_vars
    /\ [][bpc = "busy_request" =>
            /\ UNCHANGED <<task_counter, tm_tasks>>
            /\ bpc' # bpc => (bpc' = "idle" /\ ev_ops' = BusyOps)]_vars
    /\ [][task_counter' # task_counter => bpc = "spawn"]_vars

\* a lookup was answered with the busy message
C18_Witness ==
    /\ bpc = "idle"
    /\ ev_ops = BusyOps
    /\ pending_count = max_concurrent_tasks

\* C19 as stated: a lookup task that has ended COMPLETED, FAILED or TIMEOUT
\* has had exactly one message delivered, followed by a next-turn request
\* with interrupt: the result summary for COMPLETED, an apology template
\* otherwise.
C19_OneMessagePerOutcome ==
    \A t \in Tasks :
        (tpc[t] = "done" /\ tm_status[t] \in {COMPLETED, FAILED, TIMEOUT}) =>
           /\ Len(cb_ops[t]) = 2
           /\ cb_ops[t][2] = "request_interrupt"
           /\ cb_ops[t][1] = IF tm_status[t] = COMPLETED THEN "msg_result"
                             ELSE IF tm_status[t] = TIMEOUT THEN "msg_timeout"
                             ELSE cb_ops[t][1]
           /\ cb_ops[t][1] \in {"msg_result", "msg_timeout", "msg_error"}

\* C20: a user transcript whose key (trimmed, lower-cased, truncated) is in
\* the cache is dropped: decide is not called, no task is spawned, nothing
\* goes out and the cache stays as it is; the keys in the cache are
\* trimmed, lower-cased and truncated; and the cache never holds more than
\* MaxCache keys once an event has been handled.
C20_DuplicateIgnored ==
    /\ [][(/\ handled' # handled
            /\ last_ev'.kind # "empty"
            /\ last_ev'.key \in processed) =>
              /\ last_ev'.kind # "decided"
              /\ UNCHANGED <<tm_vars, processed, bpc, ev_ops, cbpc, cb_ops>>]_vars
    /\ [](\A key \in processed :
            /\ Len(key) <= KeyLen
            /\ \A i \in 1..Len(key) : key[i] # "A"
            /\ key # <<>> => key[1] # " ")
    /\ [](Cardinality(processed) <= MaxCache)

\* a transcript with a key of full length was dropped as a duplicate while
\* the cache was full
C20_Witness ==
    /\ last_ev.kind = "duplicate"
    /\ Len(last_ev.key) = KeyLen
    /\ Cardinality(processed) = MaxCache

Waiting(k) == fpc[k] = "sleep"

\* C11: the event task is never held by a function-call handler: while a
\* handler is in its turn-clear wait the event task is free, a RESPONSE_DONE
\* at the head of the delivered events can be handled, and the first poll
\* that finds no turn active ends the wait without forcing the flag.
C11_WaitDoesNotBlockEvents ==
    /\ [](\A k \in Calls : Waiting(k) =>
            /\ ev_pc \in {"idle", "response_ended"}
            /\ (s2c # <<>> /\ Head(s2c).type = "done" /\ ev_pc = "idle")
                   => ENABLED HandleResponseDone)
    /\ [][\A k \in Calls :
            (Waiting(k) /\ ~active_response /\ polls'[k] # polls[k])
               => (fpc'[k] = "ack_request" /\ active_response' = active_response)]_vars

\* a RESPONSE_DONE was handled while the handler waited, and the next poll
\* ended the wait before its last sleep
C11_Witness ==
    \E k \in Calls :
        /\ fpc[k] = "ack_request"
        /\ polls[k] > 0
        /\ polls[k] < TurnClearPolls
        /\ response_api_done
        /\ ~active_response

RECURSIVE TrailingDigits(_)
TrailingDigits(m) ==
    IF m # <<>> /\ m[Len(m)] \in Digits
    THEN TrailingDigits(SubSeq(m, 1, Len(m) - 1)) \o <<m[Len(m)]>>
    ELSE <<>>

\* the text holds, as a word, ORD in any letter case, then at most one
\* hyphen or whitespace character, then three or more digits
HoldsOrderId(text) == re_search(ORDER_ID_RE, text) # -1

\* C23: for every text that holds ORD, an optional separator (hyphen or
\* whitespace) and three or more digits, in any letter case,
\* extract_order_id returns exactly ORD-<digits>, and extract_order_id of
\* that result returns it unchanged.
C23_ExtractNormalizesIdempotent ==
    (x_pc = "twice" /\ HoldsOrderId(x_text)) =>
        /\ x_out = ORD \o <<"-">> \o TrailingDigits(Group0(ORDER_ID_RE, x_text))
        /\ x_again = x_out

\* the four steps as the specification words them, for a classifier c
Blank(text) == \A i \in DOMAIN text : text[i] \in Whitespace
Seen(text) == str_strip(str_lower(text))
\* keyword occurrences, in halves: two for each keyword of the list that
\* occurs in the text, one more when the keyword has several words
Count2(c, text) ==
    LET occ == Occurring(c.data_keywords_lower, Seen(text))
    IN 2 * Cardinality(occ)
       + Cardinality({i \in occ : str_in(<<" ">>, c.data_keywords_lower[i])})
\* the tiers 0, 1, 2 and "3+"
InStatedTier(m2) == m2 \in {0, 2, 4} \/ m2 >= 6
TierScore(m2) ==
    IF m2 = 0 THEN 0 ELSE IF m2 = 2 THEN 4 ELSE IF m2 = 4 THEN 6
    ELSE Min(4 + m2, 10)
ConversationalMatch(c, text) ==
    \E i \in DOMAIN c.conv_keywords_lower : str_in(c.conv_keywords_lower[i], Seen(text))
PatternMatch(c, text) ==
    \E i \in DOMAIN c.data_patterns : re_search(c.data_patterns[i], Seen(text)) # -1

FourSteps(c, text, r, stated_tiers_only) ==
    LET score == TierScore(Count2(c, text))
    IN IF Blank(text) THEN r.query_type = SIMPLE /\ r.confidence = 10
       ELSE IF ConversationalMatch(c, text) /\ score < 2
       THEN r.query_type = CONVERSATIONAL
       ELSE IF PatternMatch(c, text)
       THEN r.query_type = DATA_LOOKUP /\ r.confidence = 9
       ELSE /\ stated_tiers_only => InStatedTier(Count2(c, text))
            /\ IF score >= c.confidence_threshold
               THEN r.query_type = DATA_LOOKUP /\ r.confidence = score
               ELSE r.query_type = SIMPLE /\ r.confidence = 10 - score

Classified == cl_last.result.query_type # "none"

C22_ScenarioA ==
    (Classified /\ classifier = KeywordClassifier(DefaultConfig)) =>
        /\ cl_last.text = HalloText => cl_last.result.query_type = CONVERSATIONAL
        /\ cl_last.text = WoIstText =>
              /\ cl_last.result.query_type = DATA_LOOKUP
              /\ extract_order_id(WoIstText) = ORD \o <<"-", "5", "0", "0", "1">>

\* a step that is a call of decide
DecideStep == last_action = NoAction /\ last_action' # NoAction
\* the text matches a domain-intent keyword
MatchesIntent(text) == re_search(ORDER_INTENT_RE, text) # -1

\* C24: Scenario E: the agent in its initial state, given "Meine
\* Kundennummer ist C-1001", returns a Lookup whose request has a customer
\* name and no order id.
C24_ScenarioE ==
    [][(DecideStep /\ last_action'.text = KundennummerText
                   /\ agent_state = OrderConversationState)
        => /\ last_action'.action.type = LOOKUP
           /\ last_action'.action.customer_name # None
           /\ last_action'.action.order_id = None]_vars

\* C25: decide returns PassThrough exactly when the text is blank or it
\* matches no intent keyword while awaiting_identifier is false; a
\* PassThrough leaves the conversation state as it was; AskIdentifier leaves
\* awaiting_identifier true, every other action that is not a PassThrough
\* leaves it false; and only decide changes the state, so the utterance after
\* an AskIdentifier is gated with awaiting_identifier true.
C25_IntentGating ==
    [][/\ DecideStep =>
            /\ last_action'.action.type = PASS_THROUGH
                 <=> \/ Blank(last_action'.text)
                     \/ (~MatchesIntent(last_action'.text)
                           /\ ~agent_state.awaiting_identifier)
            /\ last_action'.action.type = PASS_THROUGH => agent_state' = agent_state
            /\ last_action'.action.type = ASK_IDENTIFIER
                 => agent_state'.awaiting_identifier
            /\ last_action'.action.type = LOOKUP
                 => ~agent_state'.awaiting_identifier
            /\ last_action'.action.type \in {PASS_THROUGH, ASK_IDENTIFIER, LOOKUP}
       /\ agent_state' # agent_state => DecideStep]_vars
\* an utterance with no intent keyword got past the gate, because the agent
\* had asked for an identifier
C25_Witness ==
    /\ last_action # NoAction
    /\ ~Blank(last_action.text)
    /\ ~MatchesIntent(last_action.text)
    /\ last_action.action.type = LOOKUP
    /\ last_action.action.customer_name # None

\* C29: after any sequence of add_turn calls, turn_count is the number of
\* entries of transcript_history, and entry i carries turn number i and the
\* role and the text of call i.
C29_AddTurnKeepsHistory ==
    /\ context.turn_count = Len(context.transcript_history)
    /\ Len(context.transcript_history) = Len(add_turn_calls)
    /\ \A i \in DOMAIN context.transcript_history :
          context.transcript_history[i] =
              [turn |-> i, role |-> add_turn_calls[i].role, text |-> add_turn_calls[i].text]
\* the two calls of test_add_turn, customer then agent, have been made
C29_Witness ==
    /\ Len(add_turn_calls) >= 2
    /\ add_turn_calls[1].role = "customer"
    /\ add_turn_calls[2].role = "agent"
    /\ context.turn_count >= 2

(***************************************************************************)
(* Claims about barge-in, the lookups of the function-call handler and     *)
(* the owner of the turn flags                                             *)
(***************************************************************************)
\* the event task takes the event at the head of the queue
EventTaken(type) == NextEvent(type) /\ ~IsPrefix(s2c, s2c')

C27_LookupsTimeBounded ==
    \A k \in Calls : (fpc[k] = "lookup") ~> (sent_result[k] # "none")

\* C28: _active_response changes only when the service handles
\* RESPONSE_CREATED or RESPONSE_DONE.
C28_TurnFlagSingleOwner ==
    [][active_response' # active_response
         => (EventTaken("created") \/ EventTaken("done"))]_vars

\* a step in which request_response ran to its end
RequestStep == lastReq' \in {"started", "deferred", "dropped"}
\* nothing reaches the transport that opens a turn there
NoStartSent == s2c' = s2c /\ srv'.active = srv.active /\ srv'.own = srv.own

\* C30: a request made while a turn is active and not finalized issues no
\* start and sets _pending_response_request; when RESPONSE_DONE has been
\* handled a pending request is cleared and one start issued, and no start is
\* issued without one; a request made on a ready session while no turn is
\* active issues the start at once and leaves _pending_response_request
\* false.
C30_RequestDeferral ==
    [][/\ (RequestStep /\ active_response /\ ~response_api_done)
            => /\ lastReq' = "deferred"
               /\ pending_response_request'
               /\ NoStartSent
       /\ (ev_pc = "response_ended" /\ ev_pc' = "idle")
            => IF pending_response_request
               THEN ~pending_response_request' /\ lastReq' = "deferred_start"
               ELSE lastReq' = "none" /\ NoStartSent
       /\ (RequestStep /\ session_ready /\ ~active_response)
            => /\ lastReq' = "started"
               /\ ~pending_response_request']_vars

(***************************************************************************)
(* Claims about the keyword score                                          *)
(***************************************************************************)
\* C37: the score of _score_data_keywords lies in [0, 1] and does not
\* decrease with the weighted count of matched data keywords: the text just
\* classified scores no less than a text with a count that is no larger, and
\* no more than a text with a count that is no smaller.
C37_ScoreMonotone ==
    cl_last # NoClassify =>
        \A t \in ScoredTexts \cup {cl_last.text} :
            LET mine == score_data_keywords(classifier, Seen(cl_last.text))
                other == score_data_keywords(classifier, Seen(t))
            IN /\ mine \in 0..10
               /\ Count2(classifier, t) <= Count2(classifier, cl_last.text)
                    => other <= mine
               /\ Count2(classifier, t) >= Count2(classifier, cl_last.text)
                    => other >= mine

(***************************************************************************)
(* Claims about the dispatch of tool calls                                 *)
(***************************************************************************)
\* C33: whatever the handler of tool call k sends, placeholder or real
\* result, carries the call id of k and the item id of the
\* FUNCTION_CALL_STARTED event of k; and once FUNCTION_CALL_ARGUMENTS_DONE of
\* k is handled there is a handler for k.
C33_ResultsCarryOwnIds ==
    \A k \in ToolCalls :
        /\ fc_events[k] = "done" => fc_handler[k].call_id # None
        /\ \A i \in DOMAIN fc_handler[k].sent :
              /\ fc_handler[k].sent[i].call_id = CallId(k)
              /\ fc_handler[k].sent[i].previous_item_id = ItemId(k)

(***************************************************************************)
(* Claims about the error callback of the bridge                           *)
(***************************************************************************)
\* C38: the message _on_task_error delivers for a task is the timeout
\* template exactly when the task ended TIMEOUT and the error template
\* exactly when it ended FAILED, whatever the error text says.
C38_TemplateByStatus ==
    \A t \in Tasks :
        (tm_status[t] \in {FAILED, TIMEOUT} /\ cb_ops[t] # <<>>) =>
            /\ cb_ops[t][1] = "msg_timeout" <=> tm_status[t] = TIMEOUT
            /\ cb_ops[t][1] = "msg_error" <=> tm_status[t] = FAILED

(***************************************************************************)
(* Claims about the de-duplication cache of the bridge                     *)
(***************************************************************************)
\* C40: right after a user transcript has been handled (not dropped as
\* empty or duplicate) its key is in the cache, so that the same transcript
\* as the next event is a duplicate; also when the handling trimmed the
\* cache.
C40_HandledKeyCached ==
    last_ev.kind = "decided" => last_ev.key \in processed

(***************************************************************************)
(* Claims about request_response(interrupt=True)                           *)
(***************************************************************************)
CancelIssued(r) == rpc[r] = "idle" /\ rpc'[r] = "after_cancel"

\* C31: a request_response(interrupt=True) call sends
\* response.cancel exactly when _active_response is set at the call; however
\* the transport takes the cancel, the call goes on to defer the request
\* (turn still marked active and not finalized) or to issue the start at
\* once; and the call writes no tracker field but
\* _pending_response_request, which it sets only when it defers.
C31_InterruptRequest ==
    [][\A r \in Requesters :
        /\ RequestResponse(r, TRUE)
              => (CancelIssued(r) <=> active_response)
        /\ CancelIssued(r)
              => /\ active_response /\ session_ready
                 /\ ~srv'.active
                 /\ UNCHANGED <<session_ready, active_response,
                                response_api_done, pending_response_request>>
        /\ (rpc[r] = "after_cancel" /\ rpc'[r] = "idle")
              => /\ lastReq' \in {"started", "deferred"}
                 /\ lastReq' = "deferred" <=> (active_response /\ ~response_api_done)
                 /\ lastReq' = "deferred" => pending_response_request' /\ NoStartSent
                 /\ lastReq' = "started" =>
                       /\ pending_response_request' = pending_response_request
                       /\ srv'.active
                 /\ UNCHANGED <<session_ready, active_response,
                                response_api_done>>]_vars

\* response.cancel was sent and has ended the turn at the transport; the
\* RESPONSE_DONE is not handled yet and the caller has not resumed
C31_Witness ==
    \E r \in Requesters :
        /\ rpc[r] = "after_cancel"
        /\ active_response /\ ~response_api_done
        /\ ~srv.active
        /\ s2c # <<>>

(***************************************************************************)
(* Claims about the turn-clear wait of _do_function_call                   *)
(***************************************************************************)
PollStep(k) == Waiting(k) /\ polls'[k] # polls[k]

\* C32: the turn-clear wait of a handler always ends; a poll that finds no
\* turn active ends it and leaves the flag alone, a poll that finds one
\* active sleeps again, and after TurnClearPolls sleeps the handler clears
\* the flag itself and goes on; the placeholder result is sent in the step
\* that ends the wait, with _active_response false.
C32_TurnClearWaitEnds ==
    /\ \A k \in Calls : Waiting(k) ~> ~Waiting(k)
    /\ [](\A k \in Calls : polls[k] <= TurnClearPolls
                           /\ (Waiting(k) => polls[k] < TurnClearPolls))
    /\ [][\A k \in Calls :
            /\ (PollStep(k) /\ polls[k] + 1 < TurnClearPolls)
                  => /\ active_response' = active_response
                     /\ Waiting(k)' <=> active_response
            /\ (PollStep(k) /\ polls[k] + 1 = TurnClearPolls)
                  => ~Waiting(k)'
            /\ (flog[k] = <<>> /\ flog'[k] # <<>>)
                  => /\ flog'[k] = <<"placeholder">>
                     /\ ~active_response'
                     /\ fpc[k] \in {"start", "sleep"}]_vars

\* a handler has sent its placeholder result after the last sleep of its
\* wait, the one that clears the flag
C32_Witness ==
    \E k \in Calls :
        /\ polls[k] = TurnClearPolls
        /\ fpc[k] = "ack_request"
        /\ flog[k] = <<"placeholder">>
        /\ ~response_api_done

(***************************************************************************)
(* Claims about the drain side after skip_pending_audio                    *)
(***************************************************************************)
\* C34: once skip_pending_audio has returned, the bytes a playback callback
\* that starts later puts into its output are silence or come from a packet
\* with seq_num >= playback_base: none come from the rest of a packet the
\* skip made stale, and no packet below the base is played.
C34_SkipImmediateOnDrain ==
    /\ ~out.stale
    /\ lastDrain.played => lastDrain.seq_num >= lastDrain.base

(***************************************************************************)
(* Claims about VoiceAgentBridge.stop                                      *)
(***************************************************************************)
\* C35: nothing goes out once stop() has returned: every tool result a
\* function-call handler sends, for a call dispatched before stop() too, is
\* sent while the bridge is running.
C35_NothingSentAfterStop ==
    \A k \in ToolCalls :
        \A i \in DOMAIN fc_handler[k].sent : fc_handler[k].sent[i].running

(***************************************************************************)
(* Claims about the SessionManager                                         *)
(***************************************************************************)
\* C36: the state is PROCESSING only while the transcription handler is
\* between its two awaits; when the handler has ended, the agent call having
\* returned or raised, the state is ACTIVE and handle_audio / send_text are
\* forwarded; and once stop() has completed the state is DISCONNECTED.
C36_ProcessingOnlyWhileHandling ==
    /\ (sm_state = PROCESSING /\ sm_stop = "none") => sm_pc # "idle"
    /\ (sm_pc = "idle" /\ sm_stop = "none"
          /\ sm_last.handler \in {"returned", "raised"}) => sm_state = ACTIVE
    /\ sm_stop = "done" => sm_state = DISCONNECTED

(***************************************************************************)
(* Claims about the polling orchestrators                                  *)
(***************************************************************************)
InjectOps(q) == {i \in DOMAIN q_log[q] : q_log[q][i] \notin {"skip", "cancel"}}

\* C39: a background query goes RUNNING, COMPLETED, INJECTED and no other
\* way; the checker acts on a query only once it is COMPLETED, first skips
\* the audio, then cancels the turn if there is one, then injects the stored
\* result (the tool's, or the fixed error text), once; an injected query is
\* INJECTED and out of pending_queries; and every COMPLETED query is
\* INJECTED in the end.
C39_QueryInjectedOnce ==
    /\ [][\A q \in Queries : q_state'[q] # q_state[q] =>
            <<q_state[q], q_state'[q]>> \in
                {<<"none", RUNNING>>, <<RUNNING, COMPLETED>>, <<COMPLETED, INJECTED>>}]_vars
    /\ [](\A q \in Queries :
            /\ q_log[q] # <<>> => /\ q_state[q] \in {COMPLETED, INJECTED}
                                  /\ q_log[q][1] = "skip"
            /\ Cardinality(InjectOps(q)) <= 1
            /\ InjectOps(q) \subseteq {Len(q_log[q])}
            /\ q_state[q] = INJECTED <=> InjectOps(q) # {}
            /\ q_state[q] = INJECTED =>
                  /\ q \notin pending_queries
                  /\ q_log[q][Len(q_log[q])] \in {"result", "error_text"}
            /\ q_state[q] \in {RUNNING, COMPLETED} => q \in pending_queries)
    /\ \A q \in Queries : (q_state[q] = COMPLETED) ~> (q_state[q] = INJECTED)

\* the fixed error text of a failed query was injected after a skip and a
\* cancel, while the next query is still running
C39_Witness ==
    \E q, p \in Queries :
        /\ q_log[q] = <<"skip", "cancel", "error_text">>
        /\ q_state[p] = RUNNING


====
